---- MODULE Spec2Model ----
(***************************************************************************)
(* One media-stream connection of the call server (wss.on('connection')),  *)
(* its session record in the `sessions` table, the asynchronous greeting,  *)
(* turn and silence-fallback tasks started by its handlers, and the        *)
(* call-tracking table `calls`.                                            *)
(*                                                                         *)
(* Node runs every handler to its next `await`, so one action is one       *)
(* run-to-completion slice of a handler: from an event (or the settling of *)
(* an awaited promise) up to the next await that really suspends.          *)
(* An awaited call that throws at once (no TTS client, no API key) or a    *)
(* pacing loop that is behind its deadline and does not sleep continue in  *)
(* the same slice; those runs are the runs of this model in which the      *)
(* task's next action follows with nothing in between.                     *)
(***************************************************************************)
EXTENDS Integers, Sequences, FiniteSets, Bags, TLC

\* ------------------------------------------------------------------ bounds
MaxTasks  == 2     \* async tasks (greeting, turn, fallback) in flight at once
MaxFinals == 2     \* non-empty finalized transcripts recorded
MaxFrames == 2     \* 160-byte frames in a non-empty synthesized buffer

\* --------------------------------------------------------------- constants
NULL == "null"
OPEN == 1             \* ws.readyState of an open socket (2 CLOSING, 3 CLOSED)

StreamSids  == {"MZ1"}
CallSids    == {"CA1"}
CallStatuses == {"initiated"}

\* transcripts are sequences of characters; " " is white space
TranscriptInputs == {<<>>, <<" ", "a", " ">>}

\* what analyzeOutcome can return inside getAIResponse's result; NoOutcome also
\* stands for an outcome field that is null or was never set
NoOutcome == [type |-> NULL, details |-> NULL]
DetectedOutcomes ==
    { [type |-> "scheduled",  details |-> "Tuesday 2 PM"],
      [type |-> "irrelevant", details |-> "Lead declined"],
      [type |-> "hangup",     details |-> "Call ended"] }
AiOutcomes == {NoOutcome} \cup DetectedOutcomes

VARIABLES
    readyState,   \* ws.readyState
    inTable,      \* sessions.has(sessionId)
    sess,         \* the session object (closures keep it after sessions.delete)
    sttEnded,     \* recognizeStream.end() has been called
    calls,        \* the calls Map: callSid -> entry
    tasks,        \* the bag of async greeting / turn / fallback tasks in flight
    ended,        \* history: how the task that left its handler in the last
                  \* step left it (see ExitOf), NoExit when none did
    serverUp,     \* the server process is running
    fx,           \* the stand-alone functions' bench: argument and result of
                  \* one call (see the specifications after Spec)
    ui            \* the browser page of the auto-dialer (see SpecDialer)

vars == <<readyState, inTable, sess, sttEnded, calls, tasks, ended, serverUp, fx, ui>>

\* ----------------------------------------------------------------- helpers
RECURSIVE TrimStart(_)
TrimStart(s) ==
    IF s # <<>> /\ Head(s) = " " THEN TrimStart(Tail(s)) ELSE s

RECURSIVE TrimEnd(_)
TrimEnd(s) ==
    IF s # <<>> /\ s[Len(s)] = " " THEN TrimEnd(SubSeq(s, 1, Len(s) - 1)) ELSE s

\* String.prototype.trim
Trim(s) == TrimEnd(TrimStart(s))

NoExit == "none"

\* how a task that left its handler left it: "done" (sendMedia returned after
\* the whole buffer), "stopped_early" (sendMedia returned with frames unsent),
\* "failed_infer", "failed_synth" (the awaited call threw)
ExitOf(u) == IF u.pc = "done" /\ u.off < u.n THEN "stopped_early" ELSE u.pc

NewTask(kind, pc) == [kind |-> kind, pc |-> pc, n |-> 0, off |-> 0, sid |-> NULL]

InFlight == BagToSet(tasks)

HasFreeSlot == BagCardinality(tasks) < MaxTasks

Spawn(t) == tasks (+) SetToBag({t})

Retire(t) == tasks (-) SetToBag({t})

Replace(t, u) == Retire(t) (+) SetToBag({u})

\* the buffers synthesizeSpeech can return, in frames: empty, or MaxFrames frames
BufFrames == {0, MaxFrames}

\* a 'message' event can still be emitted while the socket is closing
\* (the receiver drains what was buffered), never after 'close'
MessageDeliverable == readyState \in {OPEN, 2}

TransportOpen_Always(rs) == TRUE

\* sendMedia's liveness test before each ws.send
TransportOpen(rs) == rs = OPEN

\* sendMedia's lookup of the stream id at the start of a playback
LookupStreamSid == IF inTable THEN sess.streamSid ELSE NULL

\* the bench is not in use
NoCall == [op |-> "none"]

\* no dialer page is open
NoDialer == [page |-> "none"]

\* ------------------------------------------------------------------ Init
Init ==
    /\ readyState = OPEN
    /\ inTable = TRUE
    /\ sess = [transcripts |-> <<>>, closed |-> FALSE, acceptedFirstMedia |-> FALSE,
               streamSid |-> NULL, callSid |-> NULL, isPlaying |-> FALSE,
               outcome |-> NoOutcome]
    /\ sttEnded = FALSE
    /\ calls = [c \in {} |-> NoOutcome]
    /\ tasks = EmptyBag
    /\ ended = NoExit
    /\ serverUp = TRUE
    /\ ui = NoDialer
    /\ fx = NoCall

\* ------------------------------------------------- continuations of a task
\* greeting, after `await sendMedia` returned: sess.isPlaying = false
GreetingDone == [sess EXCEPT !.isPlaying = FALSE]

\* greeting, catch: looks the session up again before resetting the flag
GreetingCatch == IF inTable THEN [sess EXCEPT !.isPlaying = FALSE] ELSE sess

TurnFinally_Skipped == sess

\* turn, finally: if (sess) sess.isPlaying = false
TurnFinally == [sess EXCEPT !.isPlaying = FALSE]

\* task t resumes from an await and runs to its next one, reaching record u;
\* u.pc says whether it is suspended again ("play") or how it left its handler
Settle(t, u) ==
    IF u.pc = "play"
    THEN /\ tasks' = Replace(t, u)
         /\ ended' = NoExit
         /\ UNCHANGED <<sess, inTable, sttEnded>>
    ELSE /\ tasks' = Retire(t)
         /\ ended' = ExitOf(u)
         /\ CASE u.kind = "greeting" ->
                   /\ sess' = IF u.pc = "done" THEN GreetingDone ELSE GreetingCatch
                   /\ UNCHANGED <<inTable, sttEnded>>
              [] u.kind = "turn" ->
                   /\ sess' = TurnFinally
                   /\ UNCHANGED <<inTable, sttEnded>>
              [] u.kind = "fallback" ->
                   \* stop handler's tail: recognizeStream.end(); sessions.delete
                   /\ sttEnded' = TRUE
                   /\ inTable' = FALSE
                   /\ UNCHANGED sess

\* one iteration of sendMedia's loop for task record t: leave the loop when the
\* buffer is exhausted or the socket is not open, else send one frame
SendMediaStep(t) ==
    IF t.off < t.n /\ TransportOpen(readyState)
    THEN [t EXCEPT !.off = @ + 1, !.pc = "play"]
    ELSE [t EXCEPT !.pc = "done"]

\* sendMedia(ws, buf) from its entry to its first suspension, buf holding n frames
SendMediaEnter(t, n) ==
    IF n = 0 THEN [t EXCEPT !.pc = "done"]
    ELSE SendMediaStep([t EXCEPT !.n = n, !.sid = LookupStreamSid])

WsStart_NoLookup(streamSid, callSid) ==
    /\ serverUp
    /\ MessageDeliverable
    /\ HasFreeSlot
    /\ sess' = [sess EXCEPT
                  !.streamSid = IF streamSid # NULL THEN streamSid ELSE @,
                  !.callSid = IF callSid # NULL THEN callSid ELSE @,
                  !.acceptedFirstMedia = TRUE,
                  !.isPlaying = TRUE]
    /\ tasks' = Spawn(NewTask("greeting", "synth"))
    /\ ended' = NoExit
    /\ UNCHANGED <<readyState, inTable, sttEnded, calls, serverUp, fx, ui>>

\* --------------------------------------------------------- inbound events
\* ws 'message' {event:'start'}: capture the ids, launch the greeting
WsStart(streamSid, callSid) ==
    /\ serverUp
    /\ MessageDeliverable
    /\ inTable => HasFreeSlot
    /\ IF inTable
       THEN /\ sess' = [sess EXCEPT
                          !.streamSid = IF streamSid # NULL THEN streamSid ELSE @,
                          !.callSid = IF callSid # NULL THEN callSid ELSE @,
                          !.acceptedFirstMedia = TRUE,
                          !.isPlaying = TRUE]
            /\ tasks' = Spawn(NewTask("greeting", "synth"))
       ELSE UNCHANGED <<sess, tasks>>
    /\ ended' = NoExit
    /\ UNCHANGED <<readyState, inTable, sttEnded, calls, serverUp, fx, ui>>

SttData_NoLookup(isFinal, transcript) ==
    /\ serverUp
    /\ IF isFinal /\ Trim(transcript) # <<>>
       THEN /\ Len(sess.transcripts) < MaxFinals
            /\ ~sess.isPlaying => HasFreeSlot
            /\ LET pushed == [sess EXCEPT !.transcripts = Append(@, Trim(transcript))]
               IN  IF sess.isPlaying
                   THEN /\ sess' = pushed
                        /\ UNCHANGED tasks
                   ELSE /\ sess' = [pushed EXCEPT !.isPlaying = TRUE]
                        /\ tasks' = Spawn(NewTask("turn", "infer"))
       ELSE UNCHANGED <<sess, tasks>>
    /\ ended' = NoExit
    /\ UNCHANGED <<readyState, inTable, sttEnded, calls, serverUp, fx, ui>>

SttData_NoGate(isFinal, transcript) ==
    /\ serverUp
    /\ IF inTable /\ isFinal /\ Trim(transcript) # <<>>
       THEN /\ Len(sess.transcripts) < MaxFinals
            /\ HasFreeSlot
            /\ sess' = [sess EXCEPT !.transcripts = Append(@, Trim(transcript)),
                                    !.isPlaying = TRUE]
            /\ tasks' = Spawn(NewTask("turn", "infer"))
       ELSE UNCHANGED <<sess, tasks>>
    /\ ended' = NoExit
    /\ UNCHANGED <<readyState, inTable, sttEnded, calls, serverUp, fx, ui>>

SttData_AnyFinal(isFinal, transcript) ==
    /\ serverUp
    /\ IF inTable /\ isFinal
       THEN /\ Len(sess.transcripts) < MaxFinals
            /\ ~sess.isPlaying => HasFreeSlot
            /\ LET pushed == [sess EXCEPT !.transcripts = Append(@, Trim(transcript))]
               IN  IF sess.isPlaying
                   THEN /\ sess' = pushed
                        /\ UNCHANGED tasks
                   ELSE /\ sess' = [pushed EXCEPT !.isPlaying = TRUE]
                        /\ tasks' = Spawn(NewTask("turn", "infer"))
       ELSE UNCHANGED <<sess, tasks>>
    /\ ended' = NoExit
    /\ UNCHANGED <<readyState, inTable, sttEnded, calls, serverUp, fx, ui>>

\* recognizeStream 'data'
SttData(isFinal, transcript) ==
    /\ serverUp
    /\ IF inTable /\ isFinal /\ Trim(transcript) # <<>>
       THEN /\ Len(sess.transcripts) < MaxFinals
            /\ ~sess.isPlaying => HasFreeSlot
            /\ LET pushed == [sess EXCEPT !.transcripts = Append(@, Trim(transcript))]
               IN  IF sess.isPlaying
                   THEN /\ sess' = pushed
                        /\ UNCHANGED tasks
                   ELSE /\ sess' = [pushed EXCEPT !.isPlaying = TRUE]
                        /\ tasks' = Spawn(NewTask("turn", "infer"))
       ELSE UNCHANGED <<sess, tasks>>
    /\ ended' = NoExit
    /\ UNCHANGED <<readyState, inTable, sttEnded, calls, serverUp, fx, ui>>

\* ws 'message' {event:'stop'}
WsStop ==
    /\ serverUp
    /\ MessageDeliverable
    /\ IF ~inTable
       THEN UNCHANGED <<inTable, sttEnded, tasks>>
       ELSE IF Len(sess.transcripts) = 0 /\ readyState = OPEN
            THEN /\ HasFreeSlot
                 /\ tasks' = Spawn(NewTask("fallback", "synth"))
                 /\ UNCHANGED <<inTable, sttEnded>>
            ELSE /\ sttEnded' = TRUE
                 /\ inTable' = FALSE
                 /\ UNCHANGED tasks
    /\ ended' = NoExit
    /\ UNCHANGED <<readyState, sess, calls, serverUp, fx, ui>>

\* the socket starts closing: readyState leaves OPEN before 'close' is emitted
WsClosing ==
    /\ serverUp
    /\ readyState = OPEN
    /\ readyState' = 2
    /\ ended' = NoExit
    /\ UNCHANGED <<inTable, sess, sttEnded, calls, tasks, serverUp, fx, ui>>

WsClose_NoDelete ==
    /\ serverUp
    /\ readyState = 2
    /\ readyState' = 3
    /\ ended' = NoExit
    /\ UNCHANGED <<inTable, sess, sttEnded, calls, tasks, serverUp, fx, ui>>

\* ws 'close'
WsClose ==
    /\ serverUp
    /\ readyState = 2
    /\ readyState' = 3
    /\ IF inTable
       THEN /\ sttEnded' = TRUE
            /\ sess' = [sess EXCEPT !.closed = TRUE]
            /\ inTable' = FALSE
       ELSE UNCHANGED <<inTable, sess, sttEnded>>
    /\ ended' = NoExit
    /\ UNCHANGED <<calls, tasks, serverUp, fx, ui>>

\* ------------------------------------------------- settling of the awaits
InferResolve_StoreAlways(t, outcome) ==
    /\ serverUp
    /\ t.pc = "infer"
    /\ tasks' = Replace(t, [t EXCEPT !.pc = "synth"])
    /\ sess' = [sess EXCEPT !.outcome = [type |-> "hangup", details |-> "Call ended"]]
    /\ calls' = calls
    /\ ended' = NoExit
    /\ UNCHANGED <<readyState, inTable, sttEnded, serverUp, fx, ui>>

\* getAIResponse resolved with {text, outcome}
InferResolve(t, outcome) ==
    /\ serverUp
    /\ t.pc = "infer"
    /\ tasks' = Replace(t, [t EXCEPT !.pc = "synth"])
    /\ IF outcome.type # NULL
       THEN /\ sess' = [sess EXCEPT !.outcome = outcome]
            /\ calls' = IF sess.callSid # NULL /\ sess.callSid \in DOMAIN calls
                        THEN [calls EXCEPT ![sess.callSid].outcome = outcome]
                        ELSE calls
       ELSE UNCHANGED <<sess, calls>>
    /\ ended' = NoExit
    /\ UNCHANGED <<readyState, inTable, sttEnded, serverUp, fx, ui>>

\* getAIResponse rejected (missing key, HTTP error, no candidate)
InferReject(t) ==
    /\ serverUp
    /\ t.pc = "infer"
    /\ Settle(t, [t EXCEPT !.pc = "failed_infer"])
    /\ UNCHANGED <<readyState, calls, serverUp, fx, ui>>

\* synthesizeSpeech resolved with a buffer of n frames; sendMedia starts
SynthResolve(t, n) ==
    /\ serverUp
    /\ t.pc = "synth"
    /\ Settle(t, SendMediaEnter(t, n))
    /\ UNCHANGED <<readyState, calls, serverUp, fx, ui>>

\* synthesizeSpeech rejected
SynthReject(t) ==
    /\ serverUp
    /\ t.pc = "synth"
    /\ Settle(t, [t EXCEPT !.pc = "failed_synth"])
    /\ UNCHANGED <<readyState, calls, serverUp, fx, ui>>

\* sendMedia resumes after its pacing timer
SendMediaResume(t) ==
    /\ serverUp
    /\ t.pc = "play"
    /\ Settle(t, SendMediaStep(t))
    /\ UNCHANGED <<readyState, calls, serverUp, fx, ui>>

\* ------------------------------------------------------ malformed input
\* messages that are no start, media or stop event: text that is not JSON,
\* the JSON value null, an event name the handler does not know, a media event
\* without payload
MalformedKinds == {"not_json", "json_null", "unknown_event", "media_no_payload"}

\* the handler returns having done nothing
MessageIgnored ==
    /\ ended' = NoExit
    /\ UNCHANGED <<readyState, inTable, sess, sttEnded, calls, tasks, serverUp, fx, ui>>

\* the process exits: every socket, session, pending handler and both tables
\* are gone with it
ProcessExit ==
    /\ serverUp' = FALSE
    /\ readyState' = 3
    /\ inTable' = FALSE
    /\ sess' = [transcripts |-> <<>>, closed |-> FALSE, acceptedFirstMedia |-> FALSE,
                streamSid |-> NULL, callSid |-> NULL, isPlaying |-> FALSE,
                outcome |-> NoOutcome]
    /\ sttEnded' = TRUE
    /\ calls' = [c \in {} |-> NoOutcome]
    /\ tasks' = EmptyBag
    /\ ended' = NoExit
    /\ UNCHANGED <<fx, ui>>

\* ws 'message' with such a payload. JSON.parse("null") succeeds, and reading
\* payload.event of null throws outside every try, so the async handler's
\* promise rejects with nobody handling it: the runtime either only warns
\* (Node before 15) or raises it as an uncaught exception and exits.
WsMalformed(kind) ==
    /\ serverUp
    /\ MessageDeliverable
    /\ IF kind = "json_null"
       THEN MessageIgnored \/ ProcessExit
       ELSE MessageIgnored

\* ------------------------------------------------------------ HTTP surface
\* Map.prototype.set
MapSet(m, k, v) == [x \in DOMAIN m \cup {k} |-> IF x = k THEN v ELSE m[x]]

\* POST /start-call succeeded: calls.set(call.sid, {..., status:'initiated'})
StartCall(sid) ==
    /\ serverUp
    /\ sid \notin DOMAIN calls
    /\ calls' = MapSet(calls, sid, [status |-> "initiated", outcome |-> NoOutcome])
    /\ ended' = NoExit
    /\ UNCHANGED <<readyState, inTable, sess, sttEnded, tasks, serverUp, fx, ui>>

\* POST /call-status: entry = calls.get(sid) || {sid}; entry.status = status
CallStatus(sid, status) ==
    /\ serverUp
    /\ calls' = MapSet(calls, sid,
                    IF sid \in DOMAIN calls
                    THEN [calls[sid] EXCEPT !.status = status]
                    ELSE [status |-> status, outcome |-> NoOutcome])
    /\ ended' = NoExit
    /\ UNCHANGED <<readyState, inTable, sess, sttEnded, tasks, serverUp, fx, ui>>

Next ==
    \/ \E s \in StreamSids \cup {NULL}, c \in CallSids \cup {NULL} : WsStart(s, c)
    \/ \E f \in BOOLEAN, t \in TranscriptInputs : SttData(f, t)
    \/ WsStop
    \/ WsClosing
    \/ WsClose
    \/ \E t \in InFlight, o \in AiOutcomes : InferResolve(t, o)
    \/ \E t \in InFlight : InferReject(t)
    \/ \E t \in InFlight, n \in BufFrames : SynthResolve(t, n)
    \/ \E t \in InFlight : SynthReject(t)
    \/ \E t \in InFlight : SendMediaResume(t)
    \/ \E k \in MalformedKinds : WsMalformed(k)
    \/ \E c \in CallSids : StartCall(c)
    \/ \E c \in CallSids, st \in CallStatuses : CallStatus(c, st)

Spec == Init /\ [][Next]_vars

\* ============================================================== properties
\* the step sends one frame: task t of the bag becomes u, one frame further
FrameSent(t, u) ==
    /\ t.pc \in {"synth", "play"}
    /\ u.pc = "play"
    /\ u.kind = t.kind
    /\ u.off = t.off + 1
    /\ tasks' = Replace(t, u)

SomeFrameSent ==
    /\ tasks' # tasks
    /\ \E t \in BagToSet(tasks), u \in BagToSet(tasks') : FrameSent(t, u)

\* number of tasks in flight that satisfy P
NumInFlight(P(_)) ==
    LET S == {t \in BagToSet(tasks) : P(t)}
    IN  BagCardinality([t \in S |-> tasks[t]])

IsTurn(t) == t.kind = "turn"
IsSending(t) == t.pc = "play" /\ t.off < t.n
IsFallbackPlaying(t) == t.kind = "fallback" /\ t.pc = "play"
IsGreetingOrTurn(t) == t.kind \in {"greeting", "turn"}

\* the session was removed by the stop handler (the close handler marks the
\* object closed before it removes it)
StopProcessed == ~inTable /\ ~sess.closed

\* C1: at most one conversation turn is in flight per session: a finalized
\* transcript that arrives while a turn is in inference, synthesis or playback
\* starts no second turn.
C1_OneTurnInFlight == NumInFlight(IsTurn) <= 1

\* C2: at most one playback (greeting, reply turn or silence fallback) is
\* sending frames on the session's transport at any time.
C2_OnePlaybackAtATime == NumInFlight(IsSending) <= 1

\* C3: once the session's outcome has a non-none kind, no later step changes
\* its kind or detail.
C3_OutcomeFirstWins ==
    [][sess.outcome.type # NULL => sess'.outcome = sess.outcome]_vars

\* C4: once the session has captured a stream id, every frame sent afterwards
\* carries that stream id.
C4_FramesCarryStreamSid ==
    [][\A t \in BagToSet(tasks), u \in BagToSet(tasks') :
          (FrameSent(t, u) /\ sess.streamSid # NULL) => u.sid = sess.streamSid]_vars

\* C5: a session that has not captured a stream id sends no frame at all.
C5_NoFrameWithoutStreamSid ==
    [][SomeFrameSent => sess.streamSid # NULL]_vars

\* C6: a frame is sent only while the transport is open, and a playback that
\* finds the transport not open when it resumes leaves its loop there, sending
\* nothing more, and returns normally (no error path).
C6_NoSendUnlessOpen ==
    [][/\ SomeFrameSent => readyState = OPEN
       /\ \A t \in BagToSet(tasks) :
            (tasks' # tasks /\ t.pc = "play" /\ readyState # OPEN /\ tasks' = Retire(t)
               /\ serverUp')
               => ended' = IF t.off < t.n THEN "stopped_early" ELSE "done"]_vars

\* C6 witness: a playback ended early, frames left unsent, on a transport that
\* is no longer open.
C6_Witness ==
    /\ ended = "stopped_early"
    /\ readyState # OPEN
    /\ sess.streamSid # NULL

\* C7: after a stop event has been processed, no playback of the session sends
\* a further frame.
C7_NoFrameAfterStop == [][StopProcessed => ~SomeFrameSent]_vars

\* C8: over the whole life of a session at most one fallback playback happens.
C8_AtMostOneFallback == NumInFlight(IsFallbackPlaying) <= 1

\* C9: when no greeting and no turn is in flight, playbackActive is false:
\* every greeting and turn reset it on the path by which it ended.
C9_FlagResetOnEveryExit ==
    NumInFlight(IsGreetingOrTurn) = 0 => ~sess.isPlaying

\* C10: when inference fails the turn is aborted: the step sends no frame,
\* starts no synthesis and no second inference (the turn just leaves the bag),
\* leaves outcome, call tracking and the session's presence in the table
\* unchanged, and resets playbackActive.
C10_InferenceFailureAborts ==
    [][ended' = "failed_infer" =>
          /\ \E t \in BagToSet(tasks) : t.pc = "infer" /\ t.off = 0 /\ tasks' = Retire(t)
          /\ ~SomeFrameSent
          /\ sess' = [sess EXCEPT !.isPlaying = FALSE]
          /\ calls' = calls
          /\ inTable' = inTable
          /\ sttEnded' = sttEnded
          /\ readyState' = readyState]_vars

\* C10 witness: a turn of a live session has just been aborted by an inference
\* failure, and the session can take the next utterance.
C10_Witness ==
    /\ ended = "failed_infer"
    /\ inTable
    /\ ~sess.isPlaying
    /\ Len(sess.transcripts) >= 1

\* =================================================== G.711 mu-law codec
BIAS == 132           \* 0x84
CLIP == 32635
MinSample == -32768   \* range of a 16-bit signed sample (readInt16LE)
MaxSample == 32767

RECURSIVE Pow2(_)
Pow2(k) == IF k = 0 THEN 1 ELSE 2 * Pow2(k - 1)

\* linear16ToMuLaw's scan for the segment: from bit 14 down while the bit of
\* `sample` under the mask `exp` is clear
RECURSIVE ExponentScan(_, _, _)
ExponentScan(sample, exp, exponent) ==
    IF exp > 0 /\ (sample \div exp) % 2 = 0
    THEN ExponentScan(sample, exp \div 2, exponent - 1)
    ELSE exponent

BiasedMagnitude_NoClip(sample) ==
    (IF sample < 0 THEN -sample ELSE sample) + BIAS

\* magnitude after clipping and biasing, as linear16ToMuLaw computes it
BiasedMagnitude(sample) ==
    LET mag == IF sample < 0 THEN -sample ELSE sample
    IN  (IF mag > CLIP THEN CLIP ELSE mag) + BIAS

\* body of linear16ToMuLaw's loop: one 16-bit sample to one mu-law byte
EncodeSample(sample) ==
    LET sign     == IF sample < 0 THEN 128 ELSE 0
        biased   == BiasedMagnitude(sample)
        exponent == ExponentScan(biased, 16384, 7)
        mantissa == (biased \div Pow2(exponent + 3)) % 16
    IN  \* ~(sign | (exponent << 4) | mantissa) & 0xFF: the fields are disjoint
        255 - (sign + exponent * 16 + mantissa)

\* body of muLawTo16BitPCM's loop: one mu-law byte to one 16-bit sample
DecodeByte(byte) ==
    LET mulaw    == 255 - byte                    \* low 8 bits of ~mulaw
        sign     == IF mulaw \div 128 = 1 THEN -1 ELSE 1
        exponent == (mulaw \div 16) % 8
        mantissa == mulaw % 16
        sample   == (Pow2(exponent + 1) * (mantissa + 16) + Pow2(exponent) - 1 - BIAS) * sign
    IN  IF sample > MaxSample THEN MaxSample
        ELSE IF sample < MinSample THEN MinSample ELSE sample

\* the buffers are sequences: of samples (two bytes each in the source), of bytes
linear16ToMuLaw(pcm16Buffer) ==
    [i \in 1..Len(pcm16Buffer) |-> EncodeSample(pcm16Buffer[i])]

muLawTo16BitPCM(muLawBuffer) ==
    [i \in 1..Len(muLawBuffer) |-> DecodeByte(muLawBuffer[i])]

\* ==================================================== sendMedia's framing
MaxBytes == 330       \* longest compressed buffer played on the bench
chunkSize == 160

\* a linear buffer of len samples that sweeps the sample range
SweepBuffer(len) == [i \in 1..len |-> ((i * 211) % 65536) + MinSample]

BufferSlice_Short(buf, start, end) ==
    SubSeq(buf, start + 1, (IF end > Len(buf) THEN Len(buf) ELSE end) - 1)

\* Buffer.prototype.slice(start, end), 0-based, end clamped to the length
BufferSlice(buf, start, end) ==
    SubSeq(buf, start + 1, IF end > Len(buf) THEN Len(buf) ELSE end)

\* sendMedia(ws, pcmBuffer) is called: nothing to do for an empty buffer, else
\* compress and enter the loop
PacerCall ==
    /\ fx.op = "sendMedia" /\ fx.pc = "call"
    /\ fx' = IF Len(fx.pcmBuffer) = 0
             THEN [fx EXCEPT !.pc = "returned"]
             ELSE [fx EXCEPT !.pc = "loop", !.muLaw = linear16ToMuLaw(fx.pcmBuffer)]
    /\ UNCHANGED <<readyState, inTable, sess, sttEnded, calls, tasks, ended, serverUp, ui>>

\* one iteration of the loop: slice a chunk, send it as one frame, advance
PacerSend ==
    /\ fx.op = "sendMedia" /\ fx.pc = "loop"
    /\ fx.offset < Len(fx.muLaw)
    /\ TransportOpen(readyState)
    /\ fx' = [fx EXCEPT
                !.frames = Append(@, BufferSlice(fx.muLaw, fx.offset, fx.offset + chunkSize)),
                !.offset = @ + chunkSize]
    /\ UNCHANGED <<readyState, inTable, sess, sttEnded, calls, tasks, ended, serverUp, ui>>

\* the loop ends: buffer exhausted, or the socket found not open
PacerReturn ==
    /\ fx.op = "sendMedia" /\ fx.pc = "loop"
    /\ ~(fx.offset < Len(fx.muLaw) /\ TransportOpen(readyState))
    /\ fx' = [fx EXCEPT !.pc = "returned"]
    /\ UNCHANGED <<readyState, inTable, sess, sttEnded, calls, tasks, ended, serverUp, ui>>

\* a connection whose socket stays open, and one call of sendMedia on a buffer
\* of 0..MaxBytes samples
InitPacer ==
    /\ readyState = OPEN
    /\ inTable = TRUE
    /\ sess = [transcripts |-> <<>>, closed |-> FALSE, acceptedFirstMedia |-> FALSE,
               streamSid |-> NULL, callSid |-> NULL, isPlaying |-> FALSE,
               outcome |-> NoOutcome]
    /\ sttEnded = FALSE
    /\ calls = [c \in {} |-> NoOutcome]
    /\ tasks = EmptyBag
    /\ ended = NoExit
    /\ serverUp = TRUE
    /\ ui = NoDialer
    /\ \E len \in 0..MaxBytes :
          fx = [op |-> "sendMedia", pc |-> "call", pcmBuffer |-> SweepBuffer(len),
                muLaw |-> <<>>, offset |-> 0, frames |-> <<>>]

NextPacer == PacerCall \/ PacerSend \/ PacerReturn

SpecPacer == InitPacer /\ [][NextPacer]_vars

RECURSIVE Concat(_)
Concat(seqs) == IF seqs = <<>> THEN <<>> ELSE Head(seqs) \o Concat(Tail(seqs))

\* C11: with the transport open throughout, a buffer of compressed length L is
\* sent as ceil(L / 160) frames, in order, each but possibly the last of 160
\* bytes, whose concatenation is the compressed buffer; an empty buffer sends
\* no frame.
C11_FrameSizing ==
    (fx.op = "sendMedia" /\ fx.pc = "returned") =>
        LET L == Len(fx.pcmBuffer)
            n == Len(fx.frames)
        IN  /\ n = (L + chunkSize - 1) \div chunkSize
            /\ \A k \in 1..(n - 1) : Len(fx.frames[k]) = chunkSize
            /\ n > 0 => Len(fx.frames[n]) \in 1..chunkSize
            /\ Concat(fx.frames) = linear16ToMuLaw(fx.pcmBuffer)
            /\ L = 0 => n = 0

\* C11 witness: a buffer of more than two frames whose last frame is partial
\* has been played to the end.
C11_Witness ==
    /\ fx.op = "sendMedia" /\ fx.pc = "returned"
    /\ Len(fx.pcmBuffer) > 2 * chunkSize
    /\ Len(fx.pcmBuffer) % chunkSize # 0
    /\ Len(fx.frames) = 3

\* ====================================================== codec round trip
\* one sample is compressed (as on the way out in sendMedia)
CodecEncode ==
    /\ fx.op = "codec" /\ fx.pc = "call"
    /\ fx' = [fx EXCEPT !.pc = "encoded", !.byte = linear16ToMuLaw(<<fx.sample>>)[1]]
    /\ UNCHANGED <<readyState, inTable, sess, sttEnded, calls, tasks, ended, serverUp, ui>>

\* and expanded again (as on the way in, in the media handler)
CodecDecode ==
    /\ fx.op = "codec" /\ fx.pc = "encoded"
    /\ fx' = [fx EXCEPT !.pc = "decoded", !.decoded = muLawTo16BitPCM(<<fx.byte>>)[1]]
    /\ UNCHANGED <<readyState, inTable, sess, sttEnded, calls, tasks, ended, serverUp, ui>>

\* every 16-bit sample
InitCodec ==
    /\ readyState = OPEN
    /\ inTable = TRUE
    /\ sess = [transcripts |-> <<>>, closed |-> FALSE, acceptedFirstMedia |-> FALSE,
               streamSid |-> NULL, callSid |-> NULL, isPlaying |-> FALSE,
               outcome |-> NoOutcome]
    /\ sttEnded = FALSE
    /\ calls = [c \in {} |-> NoOutcome]
    /\ tasks = EmptyBag
    /\ ended = NoExit
    /\ serverUp = TRUE
    /\ ui = NoDialer
    /\ \E x \in MinSample..MaxSample :
          fx = [op |-> "codec", pc |-> "call", sample |-> x, byte |-> 0, decoded |-> 0]

NextCodec == CodecEncode \/ CodecDecode

SpecCodec == InitCodec /\ [][NextCodec]_vars

Abs(x) == IF x < 0 THEN -x ELSE x

\* x with its magnitude limited to the clip ceiling
Clipped(x) == IF x > CLIP THEN CLIP ELSE IF x < -CLIP THEN -CLIP ELSE x

\* the quantization step of the segment x falls in: segment e holds the biased
\* magnitudes 2^(e+7) .. 2^(e+8)-1 in 16 intervals of 2^(e+3)
SegmentStep(x) == Pow2(ExponentScan(BiasedMagnitude(x), 16384, 7) + 3)

\* C12: for every 16-bit sample x, decode(encode(x)) is within one quantization
\* step (of x's segment) of x clipped to the clip ceiling.
C12_RoundTrip ==
    (fx.op = "codec" /\ fx.pc = "decoded") =>
        Abs(fx.decoded - Clipped(fx.sample)) <= SegmentStep(fx.sample)

\* ===================================================== outcome classifier
\* texts are sequences of one-character strings
UpperLetters == <<"A", "B", "C", "D", "E", "F", "G", "H", "I", "J", "K", "L", "M", "N", "O", "P", "Q", "R", "S", "T", "U", "V", "W", "X", "Y", "Z">>
LowerLetters == <<"a", "b", "c", "d", "e", "f", "g", "h", "i", "j", "k", "l", "m", "n", "o", "p", "q", "r", "s", "t", "u", "v", "w", "x", "y", "z">>
Digits == {"0", "1", "2", "3", "4", "5", "6", "7", "8", "9"}
Whitespace == {" "}

Range(seq) == {seq[i] : i \in 1..Len(seq)}

\* \w of a regular expression
WordChars == Range(UpperLetters) \cup Range(LowerLetters) \cup Digits \cup {"_"}

LowerOf == [c \in Range(UpperLetters) |->
               LowerLetters[CHOOSE i \in 1..26 : UpperLetters[i] = c]]
UpperOf == [c \in Range(LowerLetters) |->
               UpperLetters[CHOOSE i \in 1..26 : LowerLetters[i] = c]]

toLowerCase_Identity(s) == s

\* String.prototype.toLowerCase / toUpperCase
toLowerCase(s) == [i \in 1..Len(s) |-> IF s[i] \in DOMAIN LowerOf THEN LowerOf[s[i]] ELSE s[i]]
toUpperCase(s) == [i \in 1..Len(s) |-> IF s[i] \in DOMAIN UpperOf THEN UpperOf[s[i]] ELSE s[i]]

\* the literal lit stands in s at position i (1-based)
LiteralAt(s, i, lit) ==
    /\ i + Len(lit) - 1 <= Len(s)
    /\ SubSeq(s, i, i + Len(lit) - 1) = lit

\* String.prototype.includes
includes(s, lit) == \E i \in 1..(Len(s) - Len(lit) + 1) : LiteralAt(s, i, lit)

\* \b holds between s[i-1] and s[i]
WordBoundary(s, i) ==
    LET before == i > 1 /\ s[i - 1] \in WordChars
        after  == i <= Len(s) /\ s[i] \in WordChars
    IN  before # after

\* a failed String.prototype.match (null); a match is the tuple of its groups
NoMatch == <<>>

\* s.match(/\b(alts[1]|alts[2]|...)\b/i): leftmost position, first alternative
MatchWord(s, alts) ==
    LET lo   == toLowerCase(s)
        hits == {p \in (1..Len(s)) \X (1..Len(alts)) :
                    /\ WordBoundary(s, p[1])
                    /\ LiteralAt(lo, p[1], alts[p[2]])
                    /\ WordBoundary(s, p[1] + Len(alts[p[2]]))}
    IN  IF hits = {} THEN NoMatch
        ELSE LET p == CHOOSE h \in hits : \A g \in hits :
                         h[1] < g[1] \/ (h[1] = g[1] /\ h[2] <= g[2])
             IN  <<SubSeq(s, p[1], p[1] + Len(alts[p[2]]) - 1)>>

RECURSIVE SkipWhitespace(_, _)
\* \s*: the first position from i on that holds no white space
SkipWhitespace(s, i) ==
    IF i <= Len(s) /\ s[i] \in Whitespace THEN SkipWhitespace(s, i + 1) ELSE i

Meridiems == <<<<"a", "m">>, <<"p", "m">>, <<"a", ".", "m", ".">>, <<"p", ".", "m", ".">>>>

\* s.match(/\b(\d{1,2}(?::\d{2})?)\s*(am|pm|a\.m\.|p\.m\.)\b/i) when minutes,
\* s.match(/\b(\d{1,2})\s*(am|pm|a\.m\.|p\.m\.)\b/i) when not.
\* A way to match is <<position, digits, minutes taken, meridiem>>; the
\* backtracking order prefers the leftmost position, two digits to one, the
\* minutes taken to skipped, the earlier alternative.
MatchTime(s, minutes) ==
    LET lo == toLowerCase(s)
        IsDigit(i) == i <= Len(s) /\ s[i] \in Digits
        AfterDigits(p) == p[1] + p[2] + (IF p[3] THEN 3 ELSE 0)
        Rank(p) == (2 - p[2]) * 8 + (IF p[3] THEN 0 ELSE 4) + p[4]
        ways == {p \in (1..Len(s)) \X {1, 2} \X (IF minutes THEN BOOLEAN ELSE {FALSE}) \X (1..4) :
                    /\ WordBoundary(s, p[1])
                    /\ \A k \in 0..(p[2] - 1) : IsDigit(p[1] + k)
                    /\ p[3] => /\ p[1] + p[2] <= Len(s)
                               /\ s[p[1] + p[2]] = ":"
                               /\ IsDigit(p[1] + p[2] + 1)
                               /\ IsDigit(p[1] + p[2] + 2)
                    /\ LET m == SkipWhitespace(s, AfterDigits(p))
                       IN  /\ LiteralAt(lo, m, Meridiems[p[4]])
                           /\ WordBoundary(s, m + Len(Meridiems[p[4]]))}
    IN  IF ways = {} THEN NoMatch
        ELSE LET p == CHOOSE h \in ways : \A g \in ways :
                         h[1] < g[1] \/ (h[1] = g[1] /\ Rank(h) <= Rank(g))
                 m == SkipWhitespace(s, AfterDigits(p))
             IN  <<SubSeq(s, p[1], AfterDigits(p) - 1),
                   SubSeq(s, m, m + Len(Meridiems[p[4]]) - 1)>>

Weekdays == <<<<"m", "o", "n", "d", "a", "y">>, <<"t", "u", "e", "s", "d", "a", "y">>, <<"w", "e", "d", "n", "e", "s", "d", "a", "y">>, <<"t", "h", "u", "r", "s", "d", "a", "y">>, <<"f", "r", "i", "d", "a", "y">>,
              <<"s", "a", "t", "u", "r", "d", "a", "y">>, <<"s", "u", "n", "d", "a", "y">>>>
DayParts == <<<<"m", "o", "r", "n", "i", "n", "g">>, <<"a", "f", "t", "e", "r", "n", "o", "o", "n">>, <<"e", "v", "e", "n", "i", "n", "g">>>>
ConfirmWords_Listed == {<<"s", "c", "h", "e", "d", "u", "l", "e", "d">>, <<"b", "o", "o", "k", "e", "d">>, <<"c", "o", "n", "f", "i", "r", "m", "e", "d">>, <<"s", "e", "t", " ", "u", "p">>}

ConfirmWords == {<<"s", "c", "h", "e", "d", "u", "l", "e", "d">>, <<"b", "o", "o", "k", "e", "d">>, <<"c", "o", "n", "f", "i", "r", "m", "e", "d">>, <<"s", "e", "t", " ", "u", "p">>, <<"l", "o", "o", "k", "i", "n", "g", " ", "f", "o", "r", "w", "a", "r", "d">>}
RejectionPhrases ==
    {<<"n", "o", "t", " ", "i", "n", "t", "e", "r", "e", "s", "t", "e", "d">>, <<"n", "o", " ", "t", "h", "a", "n", "k", "s">>, <<"d", "o", "n", "'", "t", " ", "c", "a", "l", "l">>, <<"r", "e", "m", "o", "v", "e", " ", "m", "e">>, <<"n", "o", "t", " ", "a", " ", "g", "o", "o", "d", " ", "t", "i", "m", "e">>,
     <<"b", "u", "s", "y">>, <<"n", "e", "v", "e", "r", " ", "c", "a", "l", "l">>, <<"s", "t", "o", "p", " ", "c", "a", "l", "l", "i", "n", "g">>, <<"l", "e", "a", "v", "e", " ", "m", "e", " ", "a", "l", "o", "n", "e">>}

Capitalize_AsIs(word) == word

\* word.charAt(0).toUpperCase() + word.slice(1).toLowerCase()
Capitalize(word) ==
    toUpperCase(SubSeq(word, 1, 1)) \o toLowerCase(SubSeq(word, 2, Len(word)))

NormalizeMeridiem_AsIs(m) == m

\* meridiem.toUpperCase().replace(/\./g, '')
NormalizeMeridiem(m) == SelectSeq(toUpperCase(m), LAMBDA c : c # ".")

extractSchedulingDetails(userTranscript, aiResponse) ==
    LET combined  == userTranscript \o <<" ">> \o aiResponse
        dayMatch  == MatchWord(combined, Weekdays)
        timeMatch == MatchTime(combined, TRUE)
        day       == Capitalize(dayMatch[1])
        time      == timeMatch[1] \o <<" ">> \o NormalizeMeridiem(timeMatch[2])
    IN  IF dayMatch # NoMatch /\ timeMatch # NoMatch THEN day \o <<" ">> \o time
        ELSE IF dayMatch # NoMatch THEN day
        ELSE IF timeMatch # NoMatch THEN time
        ELSE <<"M", "e", "e", "t", "i", "n", "g", " ", "s", "c", "h", "e", "d", "u", "l", "e", "d">>

MatchesSchedulePattern_NoDayPart(text) ==
    \/ MatchWord(text, Weekdays) # NoMatch
    \/ MatchTime(text, FALSE) # NoMatch
    \/ \E w \in ConfirmWords : includes(toLowerCase(text), w)

\* some pattern of schedulePatterns matches the text
MatchesSchedulePattern(text) ==
    \/ MatchWord(text, Weekdays) # NoMatch
    \/ MatchTime(text, FALSE) # NoMatch
    \/ MatchWord(text, DayParts) # NoMatch
    \/ \E w \in ConfirmWords : includes(toLowerCase(text), w)

analyzeOutcome_EitherDeclines(userTranscript, aiResponse) ==
    LET userLower == toLowerCase(userTranscript)
        aiLower   == toLowerCase(aiResponse)
        schedulingDetails ==
            IF MatchesSchedulePattern(aiResponse) \/ MatchesSchedulePattern(userTranscript)
            THEN extractSchedulingDetails(userTranscript, aiResponse)
            ELSE <<>>
    IN  IF includes(aiLower, <<"h", "a", "n", "g", "u", "p">>)
        THEN IF schedulingDetails # <<>>
             THEN [type |-> "scheduled", details |-> schedulingDetails]
             ELSE IF \E r \in RejectionPhrases : includes(userLower, r) \/ includes(aiLower, r)
                  THEN [type |-> "irrelevant", details |-> <<"L", "e", "a", "d", " ", "d", "e", "c", "l", "i", "n", "e", "d">>]
                  ELSE [type |-> "hangup", details |-> <<"C", "a", "l", "l", " ", "e", "n", "d", "e", "d">>]
        ELSE NoOutcome

analyzeOutcome(userTranscript, aiResponse) ==
    LET userLower == toLowerCase(userTranscript)
        aiLower   == toLowerCase(aiResponse)
        schedulingDetails ==
            IF MatchesSchedulePattern(aiResponse) \/ MatchesSchedulePattern(userTranscript)
            THEN extractSchedulingDetails(userTranscript, aiResponse)
            ELSE <<>>
    IN  IF includes(aiLower, <<"h", "a", "n", "g", "u", "p">>)
        THEN IF schedulingDetails # <<>>
             THEN [type |-> "scheduled", details |-> schedulingDetails]
             ELSE IF \E r \in RejectionPhrases : includes(userLower, r)
                  THEN [type |-> "irrelevant", details |-> <<"L", "e", "a", "d", " ", "d", "e", "c", "l", "i", "n", "e", "d">>]
                  ELSE [type |-> "hangup", details |-> <<"C", "a", "l", "l", " ", "e", "n", "d", "e", "d">>]
        ELSE NoOutcome

\* ------------------------------------------ the classifier on the bench
MaxUserWords == 2     \* words in a composed user utterance
MaxReplyWords == 1    \* words in a composed agent reply, before its ending

\* a piece of text with what it is: a weekday ("day"), a clock time ("clock"),
\* a bare number ("num"), a bare meridiem ("mer"), a day-part word, a
\* confirmation word ("confirm"), a decline phrase, the termination keyword
\* ("hangup"), a whole sentence taken as it is ("literal"), or none of these
\* ("plain"); norm is the form a weekday or time takes in an outcome's detail
Tok(chars, tag, norm) == [chars |-> chars, tag |-> tag, norm |-> norm]

UserWords ==
    { Tok(<<"T", "u", "e", "s", "d", "a", "y">>, "day", <<"T", "u", "e", "s", "d", "a", "y">>),
      Tok(<<"2", "p", "m">>, "clock", <<"2", " ", "P", "M">>),
      Tok(<<"2">>, "num", <<"2">>),
      Tok(<<"m", "o", "r", "n", "i", "n", "g">>, "daypart", <<>>),
      Tok(<<"b", "u", "s", "y">>, "decline", <<>>),
      Tok(<<"h", "a", "n", "g", "u", "p">>, "plain", <<>>),
      Tok(<<"o", "k", "a", "y">>, "plain", <<>>) }

ReplyWords ==
    { Tok(<<"F", "R", "I", "D", "A", "Y">>, "day", <<"F", "r", "i", "d", "a", "y">>),
      Tok(<<"1", "0", ":", "3", "0", " ", "A", "M">>, "clock", <<"1", "0", ":", "3", "0", " ", "A", "M">>),
      Tok(<<"p", "m">>, "mer", <<"P", "M">>),
      Tok(<<"b", "o", "o", "k", "e", "d">>, "confirm", <<>>),
      Tok(<<"S", "u", "r", "e", ".">>, "plain", <<>>) }

ReplyEndings ==
    { <<>>,
      <<Tok(<<"H", "A", "N", "G", "U", "P">>, "hangup", <<>>)>>,
      <<Tok(<<"H", "a", "n", "g", "u", "p", ".">>, "hangup", <<>>)>> }

\* the literal conversations: <<user utterance, agent reply>>
Scenarios ==
    { <<<<"T", "u", "e", "s", "d", "a", "y", " ", "a", "t", " ", "2", "p", "m", " ", "w", "o", "r", "k", "s">>, <<"G", "r", "e", "a", "t", ",", " ", "s", "e", "e", " ", "y", "o", "u", " ", "t", "h", "e", "n", ".", " ", "H", "A", "N", "G", "U", "P">>>>,
      <<<<"I", "'", "m", " ", "n", "o", "t", " ", "i", "n", "t", "e", "r", "e", "s", "t", "e", "d", ",", " ", "s", "t", "o", "p", " ", "c", "a", "l", "l", "i", "n", "g">>, <<"N", "o", " ", "p", "r", "o", "b", "l", "e", "m", ",", " ", "h", "a", "v", "e", " ", "a", " ", "g", "r", "e", "a", "t", " ", "d", "a", "y", ".", " ", "H", "A", "N", "G", "U", "P">>>>,
      <<<<"o", "k", "a", "y", " ", "b", "y", "e">>, <<"U", "n", "d", "e", "r", "s", "t", "o", "o", "d", ".", " ", "H", "A", "N", "G", "U", "P">>>>,
      <<<<"m", "a", "y", "b", "e", " ", "l", "a", "t", "e", "r">>, <<"S", "u", "r", "e", ",", " ", "I", "'", "l", "l", " ", "f", "o", "l", "l", "o", "w", " ", "u", "p", ".">>>> }

SeqsUpTo(S, n) == UNION {[1..k -> S] : k \in 0..n}

RECURSIVE JoinWords(_)
\* the words' characters, one space between two words
JoinWords(toks) ==
    IF toks = <<>> THEN <<>>
    ELSE IF Len(toks) = 1 THEN toks[1].chars
    ELSE toks[1].chars \o <<" ">> \o JoinWords(Tail(toks))

\* further words: decline phrases in mixed case and in the reply, and the
\* phrase "looking forward" ("forward")
PhraseUserWords ==
    { Tok(<<"N", "o", " ", "T", "h", "a", "n", "k", "s">>, "decline", <<>>),
      Tok(<<"l", "o", "o", "k", "i", "n", "g", " ", "f", "o", "r", "w", "a", "r", "d">>, "forward", <<>>),
      Tok(<<"o", "k", "a", "y">>, "plain", <<>>) }

PhraseReplyWords ==
    { Tok(<<"L", "o", "o", "k", "i", "n", "g", " ", "f", "o", "r", "w", "a", "r", "d">>, "forward", <<>>),
      Tok(<<"b", "u", "s", "y">>, "decline", <<>>),
      Tok(<<"S", "u", "r", "e", ".">>, "plain", <<>>) }

PhraseInputs ==
    { [user |-> u, reply |-> b \o e] :
          u \in SeqsUpTo(PhraseUserWords, 1),
          b \in SeqsUpTo(PhraseReplyWords, MaxReplyWords),
          e \in ReplyEndings }

ClassifierInputs ==
    { [user |-> u, reply |-> b \o e] :
          u \in SeqsUpTo(UserWords, MaxUserWords),
          b \in SeqsUpTo(ReplyWords, MaxReplyWords),
          e \in ReplyEndings }
    \cup
    { [user  |-> <<Tok(s[1], "literal", <<>>)>>,
       reply |-> <<Tok(s[2], "literal", <<>>)>>] : s \in Scenarios }
    \cup PhraseInputs

\* getAIResponse hands the utterance and the reply to analyzeOutcome
Classify ==
    /\ fx.op = "analyzeOutcome" /\ fx.pc = "call"
    /\ fx' = [fx EXCEPT !.pc = "returned",
                        !.outcome = analyzeOutcome(fx.userTranscript, fx.aiResponse)]
    /\ UNCHANGED <<readyState, inTable, sess, sttEnded, calls, tasks, ended, serverUp, ui>>

\* the caller reads the result
ClassifyRead ==
    /\ fx.op = "analyzeOutcome" /\ fx.pc = "returned"
    /\ fx' = [fx EXCEPT !.pc = "read"]
    /\ UNCHANGED <<readyState, inTable, sess, sttEnded, calls, tasks, ended, serverUp, ui>>

InitClassifier ==
    /\ readyState = OPEN
    /\ inTable = TRUE
    /\ sess = [transcripts |-> <<>>, closed |-> FALSE, acceptedFirstMedia |-> FALSE,
               streamSid |-> NULL, callSid |-> NULL, isPlaying |-> FALSE,
               outcome |-> NoOutcome]
    /\ sttEnded = FALSE
    /\ calls = [c \in {} |-> NoOutcome]
    /\ tasks = EmptyBag
    /\ ended = NoExit
    /\ serverUp = TRUE
    /\ ui = NoDialer
    /\ \E in \in ClassifierInputs :
          fx = [op |-> "analyzeOutcome", pc |-> "call",
                user |-> in.user, reply |-> in.reply,
                userTranscript |-> JoinWords(in.user),
                aiResponse |-> JoinWords(in.reply),
                outcome |-> NoOutcome]

NextClassifier == Classify \/ ClassifyRead

SpecClassifier == InitClassifier /\ [][NextClassifier]_vars

Classified == fx.op = "analyzeOutcome" /\ fx.pc # "call"

\* the call was on the literal conversation s
IsScenario(s) == fx.userTranscript = s[1] /\ fx.aiResponse = s[2]

\* C13: the four literal conversations classify as scheduled with detail
\* "Tuesday 2 PM", irrelevant, hangup, and none.
C13_LiteralScenarios ==
    Classified =>
        /\ IsScenario(<<<<"T", "u", "e", "s", "d", "a", "y", " ", "a", "t", " ", "2", "p", "m", " ", "w", "o", "r", "k", "s">>, <<"G", "r", "e", "a", "t", ",", " ", "s", "e", "e", " ", "y", "o", "u", " ", "t", "h", "e", "n", ".", " ", "H", "A", "N", "G", "U", "P">>>>)
              => fx.outcome = [type |-> "scheduled", details |-> <<"T", "u", "e", "s", "d", "a", "y", " ", "2", " ", "P", "M">>]
        /\ IsScenario(<<<<"I", "'", "m", " ", "n", "o", "t", " ", "i", "n", "t", "e", "r", "e", "s", "t", "e", "d", ",", " ", "s", "t", "o", "p", " ", "c", "a", "l", "l", "i", "n", "g">>,
                        <<"N", "o", " ", "p", "r", "o", "b", "l", "e", "m", ",", " ", "h", "a", "v", "e", " ", "a", " ", "g", "r", "e", "a", "t", " ", "d", "a", "y", ".", " ", "H", "A", "N", "G", "U", "P">>>>)
              => fx.outcome.type = "irrelevant"
        /\ IsScenario(<<<<"o", "k", "a", "y", " ", "b", "y", "e">>, <<"U", "n", "d", "e", "r", "s", "t", "o", "o", "d", ".", " ", "H", "A", "N", "G", "U", "P">>>>)
              => fx.outcome.type = "hangup"
        /\ IsScenario(<<<<"m", "a", "y", "b", "e", " ", "l", "a", "t", "e", "r">>, <<"S", "u", "r", "e", ",", " ", "I", "'", "l", "l", " ", "f", "o", "l", "l", "o", "w", " ", "u", "p", ".">>>>)
              => fx.outcome.type = NULL

\* C13 witness: the first literal conversation has been classified.
C13_Witness ==
    /\ Classified
    /\ IsScenario(<<<<"T", "u", "e", "s", "d", "a", "y", " ", "a", "t", " ", "2", "p", "m", " ", "w", "o", "r", "k", "s">>, <<"G", "r", "e", "a", "t", ",", " ", "s", "e", "e", " ", "y", "o", "u", " ", "t", "h", "e", "n", ".", " ", "H", "A", "N", "G", "U", "P">>>>)
    /\ fx.outcome.type = "scheduled"

\* ---- what a composed conversation holds, read off its words' tags
Composed ==
    /\ Classified
    /\ \A i \in 1..Len(fx.user) : fx.user[i].tag # "literal"
    /\ \A i \in 1..Len(fx.reply) : fx.reply[i].tag # "literal"

HasTag(toks, tag) == \E i \in 1..Len(toks) : toks[i].tag = tag

RECURSIVE WeekdaysIn(_)
\* the weekdays among the words, in order, capitalized
WeekdaysIn(toks) ==
    IF toks = <<>> THEN <<>>
    ELSE (IF toks[1].tag = "day" THEN <<toks[1].norm>> ELSE <<>>) \o WeekdaysIn(Tail(toks))

RECURSIVE TimesIn(_)
\* the clock times among the words, in order, normalized: a clock word, or a
\* number followed by a meridiem
TimesIn(toks) ==
    IF toks = <<>> THEN <<>>
    ELSE IF toks[1].tag = "clock" THEN <<toks[1].norm>> \o TimesIn(Tail(toks))
    ELSE IF toks[1].tag = "num" /\ Len(toks) >= 2 /\ toks[2].tag = "mer"
         THEN <<toks[1].norm \o <<" ">> \o toks[2].norm>> \o TimesIn(Tail(Tail(toks)))
    ELSE TimesIn(Tail(toks))

\* the text made of these words holds a scheduling signal
HasSignal(toks) ==
    \/ WeekdaysIn(toks) # <<>>
    \/ TimesIn(toks) # <<>>
    \/ HasTag(toks, "daypart")
    \/ HasTag(toks, "confirm")

\* the detail of a scheduled outcome, given the weekdays and times found
DetailRule(days, times) ==
    IF days # <<>> /\ times # <<>> THEN days[1] \o <<" ">> \o times[1]
    ELSE IF days # <<>> THEN days[1]
    ELSE IF times # <<>> THEN times[1]
    ELSE <<"M", "e", "e", "t", "i", "n", "g", " ", "s", "c", "h", "e", "d", "u", "l", "e", "d">>

\* C14: the outcome's kind is none, with no detail, exactly when the agent
\* reply lacks the termination keyword (in any letter case), whatever signals
\* the two texts hold.
C14_KeywordGate ==
    Composed =>
        /\ (fx.outcome.type = NULL) <=> ~HasTag(fx.reply, "hangup")
        /\ ~HasTag(fx.reply, "hangup") => fx.outcome = NoOutcome

\* C14 witness: a reply without the keyword was classified none although both
\* texts hold scheduling signals and the user said the keyword.
C14_Witness ==
    /\ Composed
    /\ ~HasTag(fx.reply, "hangup")
    /\ HasSignal(fx.user) /\ HasSignal(fx.reply)
    /\ includes(fx.userTranscript, <<"h", "a", "n", "g", "u", "p">>)
    /\ fx.outcome = NoOutcome

\* C15: when the reply holds the termination keyword and either text holds a
\* scheduling signal, the outcome is scheduled, a decline phrase in the user
\* utterance notwithstanding.
C15_SchedulingPriority ==
    (Composed /\ HasTag(fx.reply, "hangup") /\ (HasSignal(fx.user) \/ HasSignal(fx.reply)))
        => fx.outcome.type = "scheduled"

\* C15 witness: scheduled although the user utterance holds a decline phrase,
\* the only signal being a day-part word.
C15_Witness ==
    /\ Composed
    /\ HasTag(fx.user, "decline") /\ HasTag(fx.user, "daypart")
    /\ ~HasSignal(fx.reply)
    /\ fx.outcome.type = "scheduled"

\* C16 as stated: a scheduled outcome's detail follows the rule on the weekdays
\* and clock times found in the user utterance and in the agent reply, and is
\* never empty.
C16_DetailRule_EitherText ==
    (Composed /\ fx.outcome.type = "scheduled") =>
        /\ fx.outcome.details = DetailRule(WeekdaysIn(fx.user) \o WeekdaysIn(fx.reply),
                                           TimesIn(fx.user) \o TimesIn(fx.reply))
        /\ fx.outcome.details # <<>>

\* C16: a scheduled outcome's detail follows the rule on the first weekday and
\* the first clock time found in the text "<user utterance> <agent reply>"
\* (the two joined by one space, so a time may begin at the end of the
\* utterance and end in the reply); the time's digits keep their ":mm"; the
\* detail is never empty.
C16_DetailRule_JoinedText ==
    (Composed /\ fx.outcome.type = "scheduled") =>
        /\ fx.outcome.details = DetailRule(WeekdaysIn(fx.user \o fx.reply),
                                           TimesIn(fx.user \o fx.reply))
        /\ fx.outcome.details # <<>>

\* C16 witness: weekday (in capitals in the reply) and time (in the utterance)
\* both found.
C16_Witness ==
    /\ Composed
    /\ fx.outcome.type = "scheduled"
    /\ fx.outcome.details = <<"F", "r", "i", "d", "a", "y", " ", "2", " ", "P", "M">>

\* ================================= inbound events, malformed input, cleanup
IsFallback(t) == t.kind = "fallback"

\* the step is the handling of a start or a stop event by a session in the table
InboundEventHandled ==
    /\ serverUp /\ inTable
    /\ \/ \E s \in StreamSids \cup {NULL}, c \in CallSids \cup {NULL} : WsStart(s, c)
       \/ WsStop

\* C17: inbound events are handled one at a time in arrival order: while the
\* handling of a stop event is still going on (its fallback being synthesized
\* or played), the handling of no further event begins.
C17_InboundSerialized ==
    [][NumInFlight(IsFallback) >= 1 => ~InboundEventHandled]_vars

\* C18: a message that is no well-formed start, media or stop event is
\* ignored: the session, the tables and the pending handlers are as before,
\* nothing is sent, and the server keeps running.
C18_MalformedIgnored ==
    [][(\E k \in MalformedKinds : WsMalformed(k)) =>
           /\ UNCHANGED <<readyState, inTable, sess, sttEnded, calls, tasks>>
           /\ serverUp']_vars

\* C20: when a turn stores a detected outcome on a session whose call id is
\* known, the call-tracking entry of that call id holds that outcome after the
\* step (GET /calls-status reports c.outcome).
C20_OutcomePropagated ==
    [][\A t \in InFlight, o \in DetectedOutcomes :
          (InferResolve(t, o) /\ sess.callSid # NULL) =>
              /\ sess.callSid \in DOMAIN calls'
              /\ calls'[sess.callSid].outcome = o]_vars

\* the connection by itself, the HTTP routes left out (they touch `calls` only)
NextConnection ==
    \/ \E s \in StreamSids \cup {NULL}, c \in CallSids \cup {NULL} : WsStart(s, c)
    \/ \E f \in BOOLEAN, t \in TranscriptInputs : SttData(f, t)
    \/ WsStop
    \/ WsClosing
    \/ WsClose
    \/ \E t \in InFlight, o \in AiOutcomes : InferResolve(t, o)
    \/ \E t \in InFlight : InferReject(t)
    \/ \E t \in InFlight, n \in BufFrames : SynthResolve(t, n)
    \/ \E t \in InFlight : SynthReject(t)
    \/ \E t \in InFlight : SendMediaResume(t)
    \/ \E k \in MalformedKinds : WsMalformed(k)

\* the 'close' event follows once the socket has started closing (ws emits it
\* when the closing handshake ends or times out)
FairConnection == Init /\ [][NextConnection]_vars /\ WF_vars(WsClose)

\* the step in which a stop handler returns: at once (no fallback to play), or
\* when its fallback task ends
StopHandlerReturns ==
    /\ serverUp'
    /\ \/ inTable /\ WsStop /\ tasks' = tasks
       \/ \E t \in InFlight : IsFallback(t) /\ tasks' # tasks /\ tasks' = Retire(t)

\* C19: when a stop handler has returned, and when the transport has closed,
\* the session is out of the table and its recognition stream ended, and they
\* stay so; a session whose connection is closing is eventually removed.
C19_SessionCleanup ==
    /\ [][StopHandlerReturns => (~inTable' /\ sttEnded')]_vars
    /\ []((serverUp /\ readyState = 3) => (~inTable /\ sttEnded))
    /\ [][(~inTable /\ sttEnded) => (~inTable' /\ sttEnded')]_vars
    /\ (readyState # OPEN) ~> ~inTable

\* C19 witness: the close handler removed a session that a stop event had not
\* removed, while a task of the session was still pending.
C19_Witness ==
    /\ serverUp /\ readyState = 3
    /\ ~inTable /\ sttEnded /\ sess.closed
    /\ tasks # EmptyBag

\* --------------------------------------------------------- POST /start-call
\* The route of lines 126-163 by itself: one request at a time is received,
\* validated, handed to Twilio, and answered; the status webhook runs between
\* the steps.

UNDEFINED == "undefined"

\* the values a body field of the request can take
BodyNames   == {UNDEFINED, "", "John"}
BodyPhones  == {UNDEFINED, "", "+1555"}
BodyLeadIds == {UNDEFINED, "0", "1"}

\* the sids Twilio hands out, each one once
TwilioSids == {"CA1", "CA2"}

\* the statuses the webhook reports on this bench
WebhookStatuses == {"initiated", "ringing"}

\* JavaScript's !v for a body field: undefined and '' are falsy
Falsy(v) == v = UNDEFINED \/ v = ""

TrackedEntry_NoLead(leadId) ==
    [status |-> "initiated", outcome |-> NoOutcome, leadId |-> NULL]

\* the entry of calls.set(call.sid, {...}); its outcome field is not set
TrackedEntry(leadId) ==
    [status |-> "initiated", outcome |-> NoOutcome,
     leadId |-> IF leadId # UNDEFINED THEN leadId ELSE NULL]

NoResponse == [code |-> 0, callSid |-> NULL]

\* the handler up to its first await: the 400 answer, or twilioClient.calls.create
PostStartCall ==
    /\ serverUp
    /\ fx.op = "start-call" /\ fx.pc = "recv"
    /\ IF Falsy(fx.body.name) \/ Falsy(fx.body.phone)
       THEN fx' = [fx EXCEPT !.pc = "sent", !.res = [code |-> 400, callSid |-> NULL]]
       ELSE fx' = [fx EXCEPT !.pc = "create", !.placed = TRUE]
    /\ UNCHANGED <<readyState, inTable, sess, sttEnded, calls, tasks, ended, serverUp, ui>>

\* calls.create resolved with call.sid: calls.set and the success answer
CreateResolve(sid) ==
    /\ serverUp
    /\ fx.op = "start-call" /\ fx.pc = "create"
    /\ sid \notin fx.issued
    /\ calls' = MapSet(calls, sid, TrackedEntry(fx.body.leadId))
    /\ fx' = [fx EXCEPT !.pc = "sent", !.res = [code |-> 200, callSid |-> sid],
                        !.issued = @ \cup {sid}]
    /\ UNCHANGED <<readyState, inTable, sess, sttEnded, tasks, ended, serverUp, ui>>

\* calls.create rejected: the catch answers 500
CreateReject ==
    /\ serverUp
    /\ fx.op = "start-call" /\ fx.pc = "create"
    /\ fx' = [fx EXCEPT !.pc = "sent", !.res = [code |-> 500, callSid |-> NULL]]
    /\ UNCHANGED <<readyState, inTable, sess, sttEnded, calls, tasks, ended, serverUp, ui>>

\* the next request arrives
NextRequest(name, phone, leadId) ==
    /\ fx.op = "start-call" /\ fx.pc = "sent"
    /\ fx' = [fx EXCEPT !.pc = "recv", !.res = NoResponse, !.placed = FALSE,
                        !.body = [name |-> name, phone |-> phone, leadId |-> leadId]]
    /\ UNCHANGED <<readyState, inTable, sess, sttEnded, calls, tasks, ended, serverUp, ui>>

InitRoute ==
    /\ readyState = OPEN
    /\ inTable = TRUE
    /\ sess = [transcripts |-> <<>>, closed |-> FALSE, acceptedFirstMedia |-> FALSE,
               streamSid |-> NULL, callSid |-> NULL, isPlaying |-> FALSE,
               outcome |-> NoOutcome]
    /\ sttEnded = FALSE
    /\ calls = [c \in {} |-> NoOutcome]
    /\ tasks = EmptyBag
    /\ ended = NoExit
    /\ serverUp = TRUE
    /\ ui = NoDialer
    /\ \E name \in BodyNames, phone \in BodyPhones, leadId \in BodyLeadIds :
          fx = [op |-> "start-call", pc |-> "recv", res |-> NoResponse,
                placed |-> FALSE, issued |-> {},
                body |-> [name |-> name, phone |-> phone, leadId |-> leadId]]

NextRoute ==
    \/ PostStartCall
    \/ \E sid \in TwilioSids : CreateResolve(sid)
    \/ CreateReject
    \/ \E name \in BodyNames, phone \in BodyPhones, leadId \in BodyLeadIds :
          NextRequest(name, phone, leadId)
    \/ \E sid \in TwilioSids, st \in WebhookStatuses : CallStatus(sid, st)

SpecRoute == InitRoute /\ [][NextRoute]_vars

\* the handler of POST /start-call took a step
RouteStep == fx'.pc # fx.pc /\ fx.pc # "sent"

MaxLeads == 2      \* leads loaded from the CSV
MaxDials == 2      \* POST /start-call requests made by one page
NoLead   == 0      \* currentLeadId === null (lead i of the model has id i - 1)

\* what the status webhook reports while the page dials
DialerStatuses == {"in-progress", "no-answer"}

\* what a turn of the call stores as its outcome while the page dials
DialerOutcomes == {[type |-> "scheduled", details |-> "Tuesday 2 PM"]}

\* the statuses that stop polling; "Scheduled", "Hung Up" and "Not Relevant"
\* are the three statuses that start with a pictogram
PollTerminal ==
    {"Called", "Call Failed", "Failed", "No Answer", "Busy",
     "Scheduled", "Hung Up", "Not Relevant"}

\* the updater of setLeads in poll, for one lead
LeadUpdate(l, data) ==
    IF l.callSid = NULL \/ l.callSid \notin DOMAIN data THEN l
    ELSE LET entry == data[l.callSid]
             type == entry.outcome.type
             status == CASE entry.status = "in-progress" -> "In Call"
                         [] entry.status = "completed" -> "Called"
                         [] entry.status = "no-answer" -> "No Answer"
                         [] entry.status = "busy" -> "Busy"
                         [] entry.status = "failed" -> "Failed"
                         [] entry.status = "ringing" -> "Ringing"
                         [] OTHER -> entry.status
         IN [l EXCEPT !.label = IF type # NULL THEN type ELSE @,
                      !.status = IF type = "scheduled" /\ entry.outcome.details # NULL
                                    THEN "Scheduled"
                                 ELSE IF type = "hangup" THEN "Hung Up"
                                 ELSE IF type = "irrelevant" THEN "Not Relevant"
                                 ELSE status]

\* leads.find(l => l.status === 'Pending')
FirstPending(leads) ==
    LET P == {i \in DOMAIN leads : leads[i].status = "Pending"}
    IN IF P = {} THEN NoLead ELSE CHOOSE i \in P : \A j \in P : i <= j

\* the effect polls while shouldPoll
shouldPoll(leads) ==
    \E i \in DOMAIN leads :
        leads[i].callSid # NULL /\ leads[i].status \notin PollTerminal

\* callNextLead with the lead its closure finds, and startCall up to the fetch
callNextLead(u, next) ==
    IF next = NoLead THEN [u EXCEPT !.isDialing = FALSE]
    ELSE [u EXCEPT !.currentLeadId = next,
                   !.leads[next].status = "Dialing...",
                   !.isCallActive = TRUE,
                   !.posts = @ (+) SetToBag({next}),
                   !.dials = @ + 1]

\* the Start Dialing / Stop Dialing button
handleToggleDialer ==
    /\ ui.page = "dialer"
    /\ IF ui.isDialing
       THEN ui' = [ui EXCEPT !.isDialing = FALSE, !.ref = {}, !.stopped = TRUE]
       ELSE LET next == FirstPending(ui.leads)
            IN /\ next # NoLead => ui.dials < MaxDials
               /\ ui' = callNextLead([ui EXCEPT !.isDialing = TRUE, !.stopped = FALSE],
                                     next)
    /\ UNCHANGED <<readyState, inTable, sess, sttEnded, calls, tasks, ended, serverUp, fx>>

\* the End Current Call button (enabled while isCallActive)
endCall ==
    /\ ui.page = "dialer"
    /\ ui.isCallActive
    /\ ui' = [ui EXCEPT
                !.isCallActive = FALSE,
                !.currentLeadId = NoLead,
                !.ref = IF ui.isDialing
                        THEN {[kind |-> "retry", next |-> FirstPending(ui.leads)]}
                        ELSE @,
                !.timers = IF ui.isDialing THEN @ (+) SetToBag(ui.ref) ELSE @]
    /\ UNCHANGED <<readyState, inTable, sess, sttEnded, calls, tasks, ended, serverUp, fx>>

\* a pending timer fires: the one callTimeoutRef holds (stored), or another
TimerFire(t, stored) ==
    /\ ui.page = "dialer"
    /\ IF stored THEN t \in ui.ref ELSE t \in BagToSet(ui.timers)
    /\ t.next # NoLead => ui.dials < MaxDials
    /\ LET u0 == IF stored THEN [ui EXCEPT !.ref = {}]
                 ELSE [ui EXCEPT !.timers = @ (-) SetToBag({t})]
           u1 == IF t.kind = "advance"
                 THEN [u0 EXCEPT !.isCallActive = FALSE, !.currentLeadId = NoLead]
                 ELSE u0
       IN ui' = callNextLead(u1, t.next)
    /\ UNCHANGED <<readyState, inTable, sess, sttEnded, calls, tasks, ended, serverUp, fx>>

\* POST /start-call answered.  ok: the server tracked the call and .then marks
\* the lead Ringing.  Otherwise .catch runs, and its second statement calls
\* setStatusMessage, which the file never defines: the handler throws there
\* and none of its later statements run.
StartCallSettled(lead, ok) ==
    /\ ui.page = "dialer"
    /\ lead \in BagToSet(ui.posts)
    /\ IF ok
       THEN LET sid == "CA" \o ToString(Cardinality(DOMAIN calls) + 1)
            IN /\ calls' = MapSet(calls, sid, TrackedEntry(ToString(lead - 1)))
               /\ ui' = [ui EXCEPT !.posts = @ (-) SetToBag({lead}),
                                   !.leads[lead].status = "Ringing",
                                   !.leads[lead].callSid = sid]
       ELSE /\ calls' = calls
            /\ ui' = [ui EXCEPT !.posts = @ (-) SetToBag({lead})]
    /\ UNCHANGED <<readyState, inTable, sess, sttEnded, tasks, ended, serverUp, fx>>

\* poll() up to its fetch, one at a time
PollStart ==
    /\ ui.page = "dialer"
    /\ shouldPoll(ui.leads)
    /\ ui.polls = {}
    /\ ui' = [ui EXCEPT !.polls = {[isDialing |-> ui.isDialing,
                                    currentLeadId |-> ui.currentLeadId,
                                    next |-> FirstPending(ui.leads)]}]
    /\ UNCHANGED <<readyState, inTable, sess, sttEnded, calls, tasks, ended, serverUp, fx>>

\* GET /calls-status answered: the updater of setLeads with its transition
\* detection.  The statements after it either do nothing or throw at
\* setStatusMessage inside the try, which changes nothing.
PollSettle(ok) ==
    /\ ui.page = "dialer"
    /\ \E cl \in ui.polls :
         IF ~ok THEN ui' = [ui EXCEPT !.polls = {}]
         ELSE LET updated == [i \in DOMAIN ui.leads |-> LeadUpdate(ui.leads[i], calls)]
                  advance == \E i \in DOMAIN updated :
                                /\ i <= Len(ui.prevLeads)
                                /\ ui.prevLeads[i] = NULL
                                /\ updated[i].label # NULL
                                /\ cl.isDialing
                                /\ i = cl.currentLeadId
              IN ui' = [ui EXCEPT
                          !.polls = {},
                          !.leads = updated,
                          !.prevLeads = [i \in DOMAIN updated |-> updated[i].label],
                          !.ref = IF advance THEN {} ELSE @,
                          !.timers = IF advance
                                     THEN @ (+) SetToBag({[kind |-> "advance",
                                                           next |-> cl.next]})
                                     ELSE @]
    /\ UNCHANGED <<readyState, inTable, sess, sttEnded, calls, tasks, ended, serverUp, fx>>

\* a turn of the call's session stores its outcome on the call's entry
CallOutcome(sid, outcome) ==
    /\ serverUp
    /\ sid \in DOMAIN calls
    /\ calls' = [calls EXCEPT ![sid].outcome = outcome]
    /\ UNCHANGED <<readyState, inTable, sess, sttEnded, tasks, ended, serverUp, fx, ui>>

\* the page after Load Leads, the dialer off
InitDialer ==
    /\ readyState = OPEN
    /\ inTable = TRUE
    /\ sess = [transcripts |-> <<>>, closed |-> FALSE, acceptedFirstMedia |-> FALSE,
               streamSid |-> NULL, callSid |-> NULL, isPlaying |-> FALSE,
               outcome |-> NoOutcome]
    /\ sttEnded = FALSE
    /\ calls = [c \in {} |-> NoOutcome]
    /\ tasks = EmptyBag
    /\ ended = NoExit
    /\ serverUp = TRUE
    /\ fx = NoCall
    /\ \E n \in 1..MaxLeads :
          ui = [page |-> "dialer",
                leads |-> [i \in 1..n |-> [status |-> "Pending", callSid |-> NULL,
                                           label |-> NULL]],
                currentLeadId |-> NoLead, isDialing |-> FALSE, isCallActive |-> FALSE,
                prevLeads |-> <<>>, ref |-> {}, timers |-> EmptyBag,
                posts |-> EmptyBag, polls |-> {}, dials |-> 0, stopped |-> FALSE]

NextDialer ==
    \/ handleToggleDialer
    \/ endCall
    \/ \E t \in ui.ref : TimerFire(t, TRUE)
    \/ \E t \in BagToSet(ui.timers) : TimerFire(t, FALSE)
    \/ \E lead \in 1..MaxLeads, ok \in BOOLEAN : StartCallSettled(lead, ok)
    \/ PollStart
    \/ \E ok \in BOOLEAN : PollSettle(ok)
    \/ \E sid \in DOMAIN calls, st \in DialerStatuses : CallStatus(sid, st)
    \/ \E sid \in DOMAIN calls, o \in DialerOutcomes : CallOutcome(sid, o)

SpecDialer == InitDialer /\ [][NextDialer]_vars

\* nothing of the page is pending: no request, no timer, no poll to come
DialerQuiet ==
    /\ ui.posts = EmptyBag /\ ui.polls = {}
    /\ ui.ref = {} /\ ui.timers = EmptyBag
    /\ ~shouldPoll(ui.leads)

\* C21: while the dialer is on and a lead is Pending, the page always has the
\* next call under way or scheduled: it is never left with the dialer on, a
\* Pending lead, and no request, timer or poll that could start the call.
C21_AutoAdvance ==
    ~(ui.isDialing /\ FirstPending(ui.leads) # NoLead /\ DialerQuiet)

\* C22: from the click on Stop Dialing until the next click on Start Dialing
\* the page makes no POST /start-call.
C22_StopHalts ==
    [][(ui.stopped /\ ui'.stopped) => ui'.dials = ui.dials]_vars

\* ------------------------------------------- greeting, recording and turns
\* the step launches a greeting
GreetingStarts == tasks' = Spawn(NewTask("greeting", "synth"))

\* the step is task t leaving its handler
Leaves(t) == t \in InFlight /\ tasks' = Retire(t) /\ serverUp'

\* C24: a greeting does not start while isPlaying is already true; the end of
\* a greeting does not reset isPlaying while another greeting or turn of the
\* session is still in flight; a greeting is never at an inference call, and
\* its steps leave the session's outcome and transcript list alone.
C24_GreetingExclusive ==
    [][/\ GreetingStarts => ~sess.isPlaying
       /\ \A t \in InFlight :
            (t.kind = "greeting" /\ Leaves(t) /\ sess.isPlaying /\ ~sess'.isPlaying)
               => \A u \in BagToSet(tasks') : ~IsGreetingOrTurn(u)
       /\ \A t \in InFlight : t.kind = "greeting" => t.pc # "infer"
       /\ \A t \in InFlight :
            (t.kind = "greeting" /\ (Leaves(t) \/ \E u \in BagToSet(tasks') :
                                                    tasks' = Replace(t, u) /\ u # t))
               => /\ sess'.outcome = sess.outcome
                  /\ sess'.transcripts = sess.transcripts
    ]_vars

\* the step starts a turn
TurnStarts == tasks' = Spawn(NewTask("turn", "infer"))

\* C25: a final transcript handled while isPlaying is true is appended and
\* nothing else happens: no task starts and nothing but the list changes.  A
\* turn starts only in the step that appends a transcript, with isPlaying
\* false before it: never later for a transcript recorded earlier.
C25_RecordedNotActedOn ==
    [][/\ (sess.isPlaying /\ sess'.transcripts # sess.transcripts /\ serverUp')
            => /\ tasks' = tasks
               /\ calls' = calls
               /\ \E x \in {Trim(t) : t \in TranscriptInputs} :
                     sess' = [sess EXCEPT !.transcripts = Append(@, x)]
       /\ TurnStarts
            => /\ ~sess.isPlaying
               /\ Len(sess'.transcripts) = Len(sess.transcripts) + 1
    ]_vars

\* C25 witness: a greeting is being synthesized, a transcript was recorded, and
\* no turn is in flight for it.
C25_Witness ==
    /\ sess.isPlaying
    /\ Len(sess.transcripts) = 1
    /\ tasks = SetToBag({NewTask("greeting", "synth")})
    /\ sess.outcome = NoOutcome

\* C28: when getAIResponse resolves with an outcome of type null the session
\* and the calls Map are left as they were, and the turn goes on to
\* synthesizeSpeech.
C28_NoneLeavesOutcome ==
    [][\A t \in InFlight :
          InferResolve(t, NoOutcome)
             => /\ sess' = sess
                /\ calls' = calls
                /\ tasks' = Replace(t, [t EXCEPT !.pc = "synth"])
    ]_vars

\* C28 witness: a turn is playing its reply while the session, whose call is
\* tracked, still has no outcome.
C28_Witness ==
    /\ \E t \in InFlight : t.kind = "turn" /\ t.pc = "play" /\ t.off >= 1
    /\ sess.outcome = NoOutcome
    /\ sess.callSid \in DOMAIN calls
    /\ calls[sess.callSid].outcome = NoOutcome

\* what `await sendMedia(ws, audioBuffer)` evaluates to for a playback that
\* ended as u: the function returns no value on any path
SendMediaResult(u) == UNDEFINED

\* C30: the result of a playback that stopped early differs from the result of
\* the same playback delivered in full.
C30_EarlyStopObservable ==
    [][\A t \in InFlight :
          (t.pc = "play" /\ Leaves(t) /\ ended' = "stopped_early")
             => SendMediaResult([t EXCEPT !.pc = "done"])
                   # SendMediaResult([t EXCEPT !.pc = "done", !.off = t.n])
    ]_vars

\* ------------------------------------------------ what the recognizer emits
\* the connection with a recognizer that emits interim and final results of
\* several texts, empty and blank ones among them; inference and synthesis
\* fail, so that turns end and further finals are acted on
RecognizerResults == {<<>>, <<" ">>, <<" ", "a", " ">>, <<"b">>}

NextRecognizer ==
    \/ \E f \in BOOLEAN, t \in RecognizerResults : SttData(f, t)
    \/ \E s \in StreamSids : WsStart(s, NULL)
    \/ \E t \in InFlight : InferReject(t)
    \/ \E t \in InFlight : SynthReject(t)
    \/ WsStop
    \/ WsClosing
    \/ WsClose

SpecRecognizer == Init /\ [][NextRecognizer]_vars

\* C26: a result that is interim, or final with an empty or blank text, changes
\* neither the session (transcript list, isPlaying) nor the tasks in flight
\* (no turn, no fallback); a final with text appends its trimmed text at the
\* end of the list of a session in the table; and no other step changes the
\* list.  So the list is the trimmed non-empty finals in the order emitted.
C26_OnlyNonEmptyFinals ==
    [][/\ \A f \in BOOLEAN, t \in RecognizerResults :
            SttData(f, t) =>
               IF f /\ Trim(t) # <<>> /\ inTable
               THEN sess'.transcripts = Append(sess.transcripts, Trim(t))
               ELSE sess' = sess /\ tasks' = tasks
       /\ sess'.transcripts # sess.transcripts
            => \E f \in BOOLEAN, t \in RecognizerResults : SttData(f, t)
    ]_vars

\* C26 witness: "b" and then " a " were recorded, in this order and trimmed,
\* and one turn is awaiting its inference.
C26_Witness ==
    /\ sess.transcripts = << <<"b">>, <<"a">> >>
    /\ \A t \in InFlight : t.kind = "turn" /\ t.pc = "infer"
    /\ BagCardinality(tasks) = 1

\* ------------------------------------------------------------ inbound media
\* the media branch of the message handler by itself: fx keeps whether the
\* connection got a recognizeStream (speechClient was configured), the decoded
\* payloads of the media events received, and the buffers written to it

MaxMedia == 3      \* media events on one connection

\* the mu-law bytes of a media event's payload; <<>> is a missing or empty one
MediaPayloads == {<<>>, <<255>>, <<127>>, <<0, 127>>}

WsMedia_Newest(payload) ==
    /\ serverUp
    /\ MessageDeliverable
    /\ fx.op = "media"
    /\ fx.events < MaxMedia
    /\ fx' = IF payload = <<>>
             THEN [fx EXCEPT !.events = @ + 1]
             ELSE [fx EXCEPT !.events = @ + 1,
                             !.received = Append(@, payload),
                             !.written = IF fx.recognizeStream
                                         THEN <<muLawTo16BitPCM(payload)>> \o @
                                         ELSE @]
    /\ UNCHANGED <<readyState, inTable, sess, sttEnded, calls, tasks, ended, serverUp, ui>>

\* ws 'message' {event:'media'}
WsMedia(payload) ==
    /\ serverUp
    /\ MessageDeliverable
    /\ fx.op = "media"
    /\ fx.events < MaxMedia
    /\ fx' = IF payload = <<>>
             THEN [fx EXCEPT !.events = @ + 1]
             ELSE [fx EXCEPT !.events = @ + 1,
                             !.received = Append(@, payload),
                             !.written = IF fx.recognizeStream
                                         THEN Append(@, muLawTo16BitPCM(payload))
                                         ELSE @]
    /\ UNCHANGED <<readyState, inTable, sess, sttEnded, calls, tasks, ended, serverUp, ui>>

InitMedia ==
    /\ readyState = OPEN
    /\ inTable = TRUE
    /\ sess = [transcripts |-> <<>>, closed |-> FALSE, acceptedFirstMedia |-> FALSE,
               streamSid |-> NULL, callSid |-> NULL, isPlaying |-> FALSE,
               outcome |-> NoOutcome]
    /\ sttEnded = FALSE
    /\ calls = [c \in {} |-> NoOutcome]
    /\ tasks = EmptyBag
    /\ ended = NoExit
    /\ serverUp = TRUE
    /\ ui = NoDialer
    /\ \E s \in BOOLEAN :
          fx = [op |-> "media", recognizeStream |-> s, events |-> 0,
                received |-> <<>>, written |-> <<>>]

NextMedia ==
    \/ \E payload \in MediaPayloads : WsMedia(payload)
    \/ WsClosing
    \/ WsClose

SpecMedia == InitMedia /\ [][NextMedia]_vars

\* C27: with a recognizeStream, the buffers written to it are the decoded
\* payloads of the media events received so far, one write per event and in
\* the order of arrival; without one nothing is ever written or kept.
C27_MediaForwarded ==
    fx.op = "media" =>
        fx.written = IF fx.recognizeStream
                     THEN [i \in 1..Len(fx.received) |-> muLawTo16BitPCM(fx.received[i])]
                     ELSE <<>>

\* C27 witness: three frames, the first two different, were received and written.
C27_Witness ==
    /\ fx.op = "media" /\ fx.recognizeStream
    /\ Len(fx.received) = MaxMedia
    /\ fx.received[1] = <<0, 127>> /\ fx.received[2] = <<255>>
    /\ Len(fx.written) = MaxMedia
    /\ fx.written[1] # fx.written[2]

\* ------------------------------------------------------- sendMedia's pacing
\* sendMedia's loop against a clock (milliseconds): fx keeps Date.now(), the
\* startTime taken before the loop, the time the pending timer is due, and the
\* time of each ws.send.  The socket stays open.  A timer fires at its due
\* time or later, never before, and the clock never runs backwards.

chunkMs == 20
MaxPaceFrames == 3      \* frames of the buffer

\* how long one pass of the loop takes up to its Date.now()
SendLatencies == {0, 15, 45}

\* how long after its due time a timer fires
TimerDelays == {0, 5}

sleepTime_PerChunk(sentChunks, actualElapsed) == chunkMs

\* expectedElapsed - actualElapsed
sleepTime(sentChunks, actualElapsed) == sentChunks * chunkMs - actualElapsed

\* one pass of the loop: ws.send, sentChunks++, then sleep if ahead of schedule
PaceSend(latency) ==
    /\ fx.op = "pacing" /\ fx.pc = "loop"
    /\ fx.sentChunks < fx.n
    /\ TransportOpen(readyState)
    /\ LET now == fx.now + latency
           sleep == sleepTime(fx.sentChunks + 1, now - fx.startTime)
       IN fx' = [fx EXCEPT !.sends = Append(@, fx.now),
                           !.sentChunks = @ + 1,
                           !.now = now,
                           !.pc = IF sleep > 0 THEN "sleep" ELSE "loop",
                           !.due = IF sleep > 0 THEN now + sleep ELSE @]
    /\ UNCHANGED <<readyState, inTable, sess, sttEnded, calls, tasks, ended, serverUp, ui>>

\* the timer of `await new Promise(r => setTimeout(r, sleepTime))` fires
PaceWake(delay) ==
    /\ fx.op = "pacing" /\ fx.pc = "sleep"
    /\ fx' = [fx EXCEPT !.now = fx.due + delay, !.pc = "loop"]
    /\ UNCHANGED <<readyState, inTable, sess, sttEnded, calls, tasks, ended, serverUp, ui>>

\* the loop's condition fails: the buffer is exhausted
PaceReturn ==
    /\ fx.op = "pacing" /\ fx.pc = "loop"
    /\ ~(fx.sentChunks < fx.n)
    /\ fx' = [fx EXCEPT !.pc = "returned"]
    /\ UNCHANGED <<readyState, inTable, sess, sttEnded, calls, tasks, ended, serverUp, ui>>

InitPacing ==
    /\ readyState = OPEN
    /\ inTable = TRUE
    /\ sess = [transcripts |-> <<>>, closed |-> FALSE, acceptedFirstMedia |-> FALSE,
               streamSid |-> NULL, callSid |-> NULL, isPlaying |-> FALSE,
               outcome |-> NoOutcome]
    /\ sttEnded = FALSE
    /\ calls = [c \in {} |-> NoOutcome]
    /\ tasks = EmptyBag
    /\ ended = NoExit
    /\ serverUp = TRUE
    /\ ui = NoDialer
    /\ \E n \in 1..MaxPaceFrames, T \in {0, 3} :
          fx = [op |-> "pacing", pc |-> "loop", n |-> n, sentChunks |-> 0,
                startTime |-> T, now |-> T, due |-> T, sends |-> <<>>]

NextPacing ==
    \/ \E latency \in SendLatencies : PaceSend(latency)
    \/ \E delay \in TimerDelays : PaceWake(delay)
    \/ PaceReturn

SpecPacing == InitPacing /\ [][NextPacing]_vars

\* C29: frame k+1 is sent no earlier than startTime + k * chunkMs; the loop
\* sleeps only while it is ahead of that deadline, and then until the deadline
\* itself, so a frame that was late does not delay the deadlines after it.
C29_PacedByDeadline ==
    fx.op = "pacing" =>
        /\ \A k \in 1..(Len(fx.sends) - 1) :
              fx.sends[k + 1] >= fx.startTime + k * chunkMs
        /\ fx.pc = "sleep" =>
              /\ fx.due = fx.startTime + fx.sentChunks * chunkMs
              /\ fx.now < fx.due
        /\ (fx.pc = "loop" /\ fx.sentChunks >= 1) =>
              fx.now >= fx.startTime + fx.sentChunks * chunkMs

\* C29 witness: the second frame went out 5 ms after its deadline and the
\* third exactly on its own.
C29_Witness ==
    /\ fx.op = "pacing" /\ fx.pc = "returned" /\ fx.n = 3
    /\ fx.sends[2] = fx.startTime + chunkMs + 5
    /\ fx.sends[3] = fx.startTime + 2 * chunkMs

\* ------------------------------------------ which phrases make a scheduling
\* the text made of these words holds the phrase "looking forward"
HasForward(toks) == HasTag(toks, "forward")

\* C31 as stated: with the termination keyword in the reply, the outcome is
\* scheduled exactly when the utterance or the reply holds a weekday, a clock
\* time with am/pm, a day-part word, or one of scheduled, booked, confirmed,
\* set up.
C31_ListedSignalsOnly ==
    (Composed /\ HasTag(fx.reply, "hangup")) =>
        (fx.outcome.type = "scheduled" <=> (HasSignal(fx.user) \/ HasSignal(fx.reply)))

\* C31: with the termination keyword in the reply, the outcome is scheduled
\* exactly when the utterance or the reply holds a weekday, a clock time with
\* am/pm, a day-part word, one of scheduled, booked, confirmed, set up, or the
\* phrase "looking forward".
C31_SignalsOrLookingForward ==
    (Composed /\ HasTag(fx.reply, "hangup")) =>
        (fx.outcome.type = "scheduled"
            <=> \/ HasSignal(fx.user) \/ HasSignal(fx.reply)
                \/ HasForward(fx.user) \/ HasForward(fx.reply))

\* C31 witness: scheduled, with the fallback detail, on a reply whose only
\* phrase is "Looking forward" after a user who declined.
C31_Witness ==
    /\ Composed
    /\ HasTag(fx.reply, "hangup") /\ HasForward(fx.reply)
    /\ ~HasSignal(fx.user) /\ ~HasSignal(fx.reply) /\ ~HasForward(fx.user)
    /\ HasTag(fx.user, "decline")
    /\ fx.outcome = [type |-> "scheduled", details |-> <<"M", "e", "e", "t", "i", "n", "g", " ", "s", "c", "h", "e", "d", "u", "l", "e", "d">>]

\* one of the texts holds something the classifier takes for scheduling
SchedulingSignal ==
    \/ HasSignal(fx.user) \/ HasSignal(fx.reply)
    \/ HasForward(fx.user) \/ HasForward(fx.reply)

ExpandByte ==
    /\ fx.op = "expand" /\ fx.pc = "call"
    /\ fx' = [fx EXCEPT !.pc = "returned", !.sample = muLawTo16BitPCM(<<fx.byte>>)[1]]
    /\ UNCHANGED <<readyState, inTable, sess, sttEnded, calls, tasks, ended, serverUp, ui>>

\* the caller takes the sample
ExpandRead ==
    /\ fx.op = "expand" /\ fx.pc = "returned"
    /\ fx' = [fx EXCEPT !.pc = "read"]
    /\ UNCHANGED <<readyState, inTable, sess, sttEnded, calls, tasks, ended, serverUp, ui>>

InitExpand ==
    /\ readyState = OPEN
    /\ inTable = TRUE
    /\ sess = [transcripts |-> <<>>, closed |-> FALSE, acceptedFirstMedia |-> FALSE,
               streamSid |-> NULL, callSid |-> NULL, isPlaying |-> FALSE,
               outcome |-> NoOutcome]
    /\ sttEnded = FALSE
    /\ calls = [c \in {} |-> NoOutcome]
    /\ tasks = EmptyBag
    /\ ended = NoExit
    /\ serverUp = TRUE
    /\ ui = NoDialer
    /\ \E b \in 0..255 : fx = [op |-> "expand", pc |-> "call", byte |-> b, sample |-> 0]

NextExpand == ExpandByte \/ ExpandRead

SpecExpand == InitExpand /\ [][NextExpand]_vars

\* G.711 mu-law expansion of one byte: of the inverted byte, bit 7 is the
\* sign (set: negative), bits 6-4 the segment e, bits 3-0 the mantissa m; the
\* magnitude is ((2m + 33) * 2^(e+2)) - 132
G711Expand(byte) ==
    LET u == 255 - byte
        e == (u \div 16) % 8
        m == u % 16
        magnitude == (2 * m + 33) * Pow2(e + 2) - 132
    IN  IF u \div 128 = 1 THEN -magnitude ELSE magnitude

\* the byte's encoded sign is positive
PositiveByte(byte) == byte >= 128

\* C33: for each of the 256 bytes the decoded sample is the G.711 expansion of
\* the byte, is non-negative exactly when the byte's sign is positive, and lies
\* in the 16-bit signed range.
C33_DecodeIsG711 ==
    (fx.op = "expand" /\ fx.pc # "call") =>
        /\ fx.sample = G711Expand(fx.byte)
        /\ (fx.sample >= 0) <=> PositiveByte(fx.byte)
        /\ fx.sample \in MinSample..MaxSample

\* G.711 mu-law compression of one sample, by arithmetic: the magnitude clipped
\* to 32635 and biased by 132 lies in segment e when 2^(e+7) <= it < 2^(e+8);
\* the mantissa counts the steps of 2^(e+3) above the segment's start
G711Compress(x) ==
    LET mag    == IF x < 0 THEN -x ELSE x
        biased == (IF mag > 32635 THEN 32635 ELSE mag) + 132
        e      == CHOOSE k \in 0..7 : Pow2(k + 7) <= biased /\ biased < Pow2(k + 8)
        m      == (biased - Pow2(e + 7)) \div Pow2(e + 3)
    IN  255 - ((IF x < 0 THEN 128 ELSE 0) + 16 * e + m)

\* C34: for every 16-bit sample, -32768 included, the encoded byte is the
\* G.711 compression of the sample: a function of the sample alone, in 0..255.
C34_EncodeIsG711 ==
    (fx.op = "codec" /\ fx.pc # "call") =>
        /\ fx.byte = G711Compress(fx.sample)
        /\ fx.byte \in 0..255

\* C34 witness: -32768, whose magnitude exceeds the clip ceiling, was encoded
\* as the byte 0x00.
C34_Witness ==
    /\ fx.op = "codec" /\ fx.pc = "encoded"
    /\ fx.sample = MinSample
    /\ fx.byte = 0

\* ------------------------------------------------------- two live sessions
\* two connections served by the one process: each 'connection' callback has
\* its own sessionId = uuidv4(), its own closures and its own ws, and the
\* sessions Map holds one object per id.  fx keeps, per connection, whether
\* the id is in the Map, the session object, the task in flight, and the tags
\* of the frames sent on that connection's socket; `actor` is the connection
\* whose event or task ran in the last step.  One task per connection is
\* followed, and one recorded transcript.

Conns == {1, 2}
MaxPairFinals == 1

\* Twilio names every stream differently
PairSid(c) == "MZ" \o ToString(c)

NoTask == "none"

\* sessions.set(sessionId, {..., streamSid: null, isPlaying: false, outcome: null})
NewSession == [streamSid |-> NULL, isPlaying |-> FALSE, transcripts |-> <<>>,
               outcome |-> NoOutcome]

\* ws 'message' {event:'start'} on connection c
PairStart(c) ==
    /\ serverUp
    /\ fx.op = "pair"
    /\ fx.pending[c] = NoTask
    /\ fx' = IF c \in fx.table
             THEN [fx EXCEPT !.session[c].streamSid = PairSid(c),
                             !.session[c].isPlaying = TRUE,
                             !.pending[c] = "greeting",
                             !.actor = c]
             ELSE [fx EXCEPT !.actor = c]
    /\ UNCHANGED <<readyState, inTable, sess, sttEnded, calls, tasks, ended, serverUp, ui>>

\* recognizeStream 'data' of connection c with a non-empty final transcript
PairFinal(c) ==
    /\ serverUp
    /\ fx.op = "pair"
    /\ c \in fx.table
    /\ Len(fx.session[c].transcripts) < MaxPairFinals
    /\ ~fx.session[c].isPlaying => fx.pending[c] = NoTask
    /\ fx' = IF fx.session[c].isPlaying
             THEN [fx EXCEPT !.session[c].transcripts = Append(@, <<"a">>),
                             !.actor = c]
             ELSE [fx EXCEPT !.session[c].transcripts = Append(@, <<"a">>),
                             !.session[c].isPlaying = TRUE,
                             !.pending[c] = "infer",
                             !.actor = c]
    /\ UNCHANGED <<readyState, inTable, sess, sttEnded, calls, tasks, ended, serverUp, ui>>

\* getAIResponse of connection c's turn resolved: the outcome goes to the
\* `sess` the handler looked up under its own sessionId
PairInfer(c, outcome) ==
    /\ serverUp
    /\ fx.op = "pair"
    /\ fx.pending[c] = "infer"
    /\ fx' = IF outcome.type # NULL
             THEN [fx EXCEPT !.session[c].outcome = outcome,
                             !.pending[c] = "turn",
                             !.actor = c]
             ELSE [fx EXCEPT !.pending[c] = "turn", !.actor = c]
    /\ UNCHANGED <<readyState, inTable, sess, sttEnded, calls, tasks, ended, serverUp, ui>>

\* sendMedia(ws, buf) of connection c's greeting or turn: the stream id is
\* that of sessions.get(ws._sessionId), the frame goes out on ws, and the
\* caller clears the flag when it returns
PairSend(c) ==
    /\ serverUp
    /\ fx.op = "pair"
    /\ fx.pending[c] \in {"greeting", "turn"}
    /\ LET streamSid == IF c \in fx.table THEN fx.session[c].streamSid ELSE NULL
       IN  fx' = [fx EXCEPT !.frames[c] = @ \cup {streamSid},
                            !.session[c].isPlaying = FALSE,
                            !.pending[c] = NoTask,
                            !.actor = c]
    /\ UNCHANGED <<readyState, inTable, sess, sttEnded, calls, tasks, ended, serverUp, ui>>

\* ws 'message' {event:'stop'} on connection c, a transcript recorded
PairStop(c) ==
    /\ serverUp
    /\ fx.op = "pair"
    /\ c \in fx.table
    /\ Len(fx.session[c].transcripts) > 0
    /\ fx' = [fx EXCEPT !.table = @ \ {c}, !.actor = c]
    /\ UNCHANGED <<readyState, inTable, sess, sttEnded, calls, tasks, ended, serverUp, ui>>

\* ws 'message' on connection c whose text is the JSON value null: the
\* handler's promise rejects unhandled (see WsMalformed); the runtime only
\* warns, or the process exits and every session and task is gone with it
PairNull(c) ==
    /\ serverUp
    /\ fx.op = "pair"
    /\ \/ /\ fx' = [fx EXCEPT !.actor = c]
          /\ UNCHANGED serverUp
       \/ /\ fx' = [fx EXCEPT !.table = {},
                              !.session = [d \in Conns |-> NewSession],
                              !.pending = [d \in Conns |-> NoTask],
                              !.actor = c]
          /\ serverUp' = FALSE
    /\ UNCHANGED <<readyState, inTable, sess, sttEnded, calls, tasks, ended, ui>>

InitPair ==
    /\ readyState = OPEN
    /\ inTable = TRUE
    /\ sess = [transcripts |-> <<>>, closed |-> FALSE, acceptedFirstMedia |-> FALSE,
               streamSid |-> NULL, callSid |-> NULL, isPlaying |-> FALSE,
               outcome |-> NoOutcome]
    /\ sttEnded = FALSE
    /\ calls = [c \in {} |-> NoOutcome]
    /\ tasks = EmptyBag
    /\ ended = NoExit
    /\ serverUp = TRUE
    /\ ui = NoDialer
    /\ fx = [op |-> "pair", table |-> Conns,
             session |-> [c \in Conns |-> NewSession],
             pending |-> [c \in Conns |-> NoTask],
             frames |-> [c \in Conns |-> {}],
             actor |-> 1]

NextPair ==
    \/ \E c \in Conns : PairStart(c)
    \/ \E c \in Conns : PairFinal(c)
    \/ \E c \in Conns, o \in {NoOutcome, [type |-> "hangup", details |-> "Call ended"]} :
          PairInfer(c, o)
    \/ \E c \in Conns : PairSend(c)
    \/ \E c \in Conns : PairStop(c)
    \/ \E c \in Conns : PairNull(c)

SpecPair == InitPair /\ [][NextPair]_vars

\* C35: a step made by one connection (an event it received, or a turn, a
\* playback or a failure of its session) leaves every other connection's
\* session as it was (in the table or not, isPlaying, transcripts, outcome,
\* streamSid), sends no frame on another connection's socket, and tags the
\* frames it sends with no other session's stream id.
C35_SessionsIsolated ==
    [][fx.op = "pair" =>
         /\ \A d \in Conns \ {fx'.actor} :
               /\ (d \in fx'.table) = (d \in fx.table)
               /\ fx'.session[d] = fx.session[d]
               /\ fx'.frames[d] = fx.frames[d]
         /\ \A d \in Conns \ {fx'.actor} :
               PairSid(d) \notin fx'.frames[fx'.actor]]_vars

\* ------------------------------------------------------ after the removal
\* the step launches a silence fallback
FallbackStarts == tasks' = Spawn(NewTask("fallback", "synth"))

\* C36: once the session is out of the table (the stop handler has run to its
\* end, or 'close' was handled) it never comes back, its stream id and call id
\* stay as they are, and no greeting and no fallback is launched, whatever
\* start and stop events the connection still delivers.
C36_StoppedIsTerminal ==
    [][(~inTable /\ serverUp')
          => /\ ~inTable'
             /\ sess'.streamSid = sess.streamSid
             /\ sess'.callSid = sess.callSid
             /\ ~GreetingStarts
             /\ ~FallbackStarts
    ]_vars

\* C36 witness: the stop handler removed a session that never got a stream id
\* and has nothing in flight, and the socket is still open, so that start and
\* stop events can still arrive: each is a step that stays in this state.
C36_Witness ==
    /\ StopProcessed
    /\ serverUp
    /\ readyState = OPEN
    /\ sess.streamSid = NULL
    /\ sess.transcripts # <<>>
    /\ tasks = EmptyBag

\* C37: while the session is out of the table no turn starts, and a result
\* of the recognizer handled then, final or interim, with text or without,
\* changes nothing: the session object, the tasks in flight (no inference, no
\* synthesis, no frame) and the calls Map stay as they are.
C37_LateFinalStartsNothing ==
    [][~inTable =>
         /\ (tasks' # tasks /\ serverUp') => ~TurnStarts
         /\ UNCHANGED <<sess, tasks, calls, inTable, sttEnded, readyState>>
               \/ \A f \in BOOLEAN, t \in TranscriptInputs : ~SttData(f, t)
    ]_vars

\* C37 witness: 'close' removed a session that has one transcript, no outcome,
\* isPlaying false and nothing in flight: a final result arriving now finds
\* no gate closed but the missing table entry.
C37_Witness ==
    /\ ~inTable /\ sess.closed
    /\ serverUp
    /\ Len(sess.transcripts) = 1
    /\ ~sess.isPlaying
    /\ sess.outcome = NoOutcome
    /\ tasks = EmptyBag

\* ------------------------------------------------- media after the stop
\* the media bench on a connection that also receives stop events and
\* recognizer results; inference and synthesis fail, so that a turn and the
\* stop handler's fallback come to their end
NextMediaStop ==
    \/ \E payload \in MediaPayloads : WsMedia(payload)
    \/ \E t \in TranscriptInputs : SttData(TRUE, t)
    \/ WsStop
    \/ \E t \in InFlight : InferReject(t)
    \/ \E t \in InFlight : SynthReject(t)
    \/ WsClosing
    \/ WsClose

SpecMediaStop == InitMedia /\ [][NextMediaStop]_vars

\* C38: once recognizeStream.end() has been called nothing more is written to
\* the stream.
C38_NoWriteAfterEnd ==
    [][(fx.op = "media" /\ fx.recognizeStream /\ sttEnded)
          => fx'.written = fx.written]_vars

\* ------------------------------------------- the outcome and the synthesis
\* the step is a synthesis failure or a step of a playback (a frame sent, or
\* the loop left at the end of the buffer or at a socket that is not open)
SynthesisOrPlaybackStep ==
    \E t \in InFlight :
        /\ t.kind = "turn"
        /\ t.pc \in {"synth", "play"}
        /\ \/ Leaves(t)
           \/ \E u \in BagToSet(tasks') : tasks' = Replace(t, u) /\ u # t

\* C39: the step in which a turn's inference resolves with an outcome stores
\* it on the session and, the call id being known, in the call's tracking
\* entry, and only then is the turn at its synthesis; no synthesis failure and
\* no step of the playback, stopped early or not, changes the session's
\* outcome or the calls Map.
C39_StoredBeforeSynthesis ==
    [][/\ \A t \in InFlight, o \in DetectedOutcomes :
            (t.kind = "turn" /\ InferResolve(t, o))
               => /\ sess'.outcome = o
                  /\ sess.callSid # NULL
                        => /\ sess.callSid \in DOMAIN calls'
                           /\ calls'[sess.callSid].outcome = o
                  /\ tasks' = Replace(t, [t EXCEPT !.pc = "synth"])
       /\ (SynthesisOrPlaybackStep /\ serverUp')
               => /\ sess'.outcome = sess.outcome
                  /\ calls' = calls
    ]_vars

\* ------------------------------------------------------- the calls table
\* every writer of the calls Map side by side: POST /start-call with requests
\* in flight, the status webhook (which may report a call before calls.create
\* has answered), and the turns that store an outcome on an entry
NextTable ==
    \/ NextRoute
    \/ \E sid \in DOMAIN calls, o \in DialerOutcomes : CallOutcome(sid, o)

SpecTable == InitRoute /\ [][NextTable]_vars

\* C40: no step takes an entry out of the calls Map or turns an entry's
\* outcome from a detected one back to none; POST /call-status for a tracked
\* sid changes that entry's status and nothing else in the Map (outcome and
\* leadId stay), and for an unknown sid adds an entry of that status without
\* outcome, leaving the others alone.
C40_TableKeepsOutcome ==
    [][serverUp' =>
         /\ DOMAIN calls \subseteq DOMAIN calls'
         /\ \A k \in DOMAIN calls :
               calls[k].outcome # NoOutcome => calls'[k].outcome # NoOutcome
         /\ \A sid \in TwilioSids, st \in WebhookStatuses :
               (CallStatus(sid, st) /\ calls' # calls) =>
                   IF sid \in DOMAIN calls
                   THEN calls' = [calls EXCEPT ![sid].status = st]
                   ELSE /\ calls'[sid].status = st
                        /\ calls'[sid].outcome = NoOutcome
                        /\ \A k \in DOMAIN calls : calls'[k] = calls[k]
    ]_vars
====
